---- MODULE Spec2Model ----
(***************************************************************************)
(* Room state synchronisation of ddd-dice-sync: the polling backend        *)
(* (netlify/functions/sync.js), the socket backend (sync-server.js) and    *)
(* the polling client (DDDSyncClient).  The registries, the Room classes,  *)
(* the request and event handlers and the client's methods are translated  *)
(* operation by operation.  Time is the millisecond clock read by          *)
(* `new Date()` / `Date.now()`.                                            *)
(***************************************************************************)
EXTENDS Integers, Sequences, FiniteSets, TLC

\* ---------------------------------------------------------------- bounds
MaxSessions == 2        \* session ids generateSessionId hands out in one run
MaxTicks == 2           \* clock advances in one run
MaxAppends == 2         \* event-appending requests in one run
MaxLeaves == 1          \* leave requests in one run of the membership model
MaxPollAppends == 1     \* events appended in one run of the polling model
MaxPlayers == 1         \* longest roster a client submits
PrefillLen == 49        \* backlog of the room that has been in use
ScenarioSessions == 5   \* sessions of the roster scenario
MaxSockets == 2         \* socket connections accepted in one run
MaxRoomObjects == 2     \* Room objects the socket backend constructs in one run
MaxEvents == 3          \* room events the socket backend handles in one run
MaxInflight == 2        \* poll requests of the client under way at a time
MaxFailures == 6        \* connection failures the socket client meets in one run

\* ------------------------------------------------------ program constants
FiveMinutes == 5 * 60 * 1000
OneHour == 60 * 60 * 1000
OneDay == 24 * 60 * 60 * 1000
PollDelay == 2000
MaxReconnectAttempts == 5
ReconnectDelay == 1000
MaxPollDelay == 10000
MaxMessages == 50
RecentDefault == 10
ActiveLimit == 4

Null == "null"
NoSince == [none |-> TRUE]      \* a poll body without `since`
NoDice == <<>>                  \* currentDiceValues = null
NoSession == -1                 \* a request that names no session
DiceInputs == {<<3, 5>>, <<1, 1>>}
TimerInputs ==
  { [isRunning |-> TRUE, remainingTime |-> 60, duration |-> 60, startTime |-> Null],
    [isRunning |-> FALSE, remainingTime |-> 30] }

\* The polling backend: the registry, the clock, the last response, and a
\* history of the run that no handler reads.
VARIABLES rooms, now, nextSession, response, ticks, appends, joined, left, seen
pullVars == <<rooms, nextSession, response, appends, joined, left, seen>>

\* Which of the two backends the process runs.
VARIABLE server

\* The socket backend: its registry `rooms` (code -> Room object), the Room
\* objects, the `currentRoom` of every connection's closure, and what the
\* last event emitted and answered.
VARIABLES ioRooms, heap, nextObject, currentRoom, nextSocket, emitted, reply, events
pushVars == <<ioRooms, heap, nextObject, currentRoom, nextSocket, emitted, reply, events>>

\* The polling client: the fields of one DDDSyncClient, the requests and
\* responses under way between it and the backend, the callbacks its last
\* step fired, and a history no method reads: the ids of the events given
\* to handleMessage, and whether leaveRoom or disconnect has been called.
VARIABLES client, wire, fired, handled, leaveCalled

\* The socket client: the fields of one DDDSyncClient of the socket build,
\* the sockets its connect() has made, and its pending reconnect timers.
VARIABLE ioClient
clientVars == <<client, wire, fired, handled, leaveCalled, ioClient>>

vars == <<rooms, now, nextSession, response, ticks, appends, joined, left, seen,
          server, ioRooms, heap, nextObject, currentRoom, nextSocket, emitted, reply,
          events, client, wire, fired, handled, leaveCalled, ioClient>>

\* ------------------------------------------------------------- utilities
Min(a, b) == IF a < b THEN a ELSE b
Max(a, b) == IF a > b THEN a ELSE b
Put(R, rid, room) == [r \in DOMAIN R \cup {rid} |-> IF r = rid THEN room ELSE R[r]]
Remove(R, rid) == [r \in DOMAIN R \ {rid} |-> R[r]]
Restrict(f, S) == [x \in S |-> f[x]]
EmptyMap == [x \in {} |-> Null]

\* Array.prototype.slice(-n): the last n elements (all when fewer).
SliceLast(seq, n) == SubSeq(seq, Max(1, Len(seq) - n + 1), Len(seq))

\* Date.prototype.toISOString and new Date(isoString): a millisecond
\* timestamp survives the round trip through its ISO string.
toISOString(t) == [iso |-> t]
DateOf(x) == x.iso

\* ------------------------------------------------------------ class Room
\* constructor(id)
NewRoom(id, t) ==
  [ id |-> id,
    participants |-> EmptyMap,
    currentDiceValues |-> NoDice,
    timerState |-> [isRunning |-> FALSE, remainingTime |-> 0, duration |-> 60,
                    startTime |-> Null],
    players |-> <<>>,          \* Map sessionId -> player array, in insertion order
    messages |-> <<>>,
    createdAt |-> t,
    lastActivity |-> t ]

\* Map.prototype.has / get / delete on the insertion-ordered players map.
PlayersHas(players, s) == \E i \in 1..Len(players) : players[i].sessionId = s
PlayersGet(players, s) ==
  players[CHOOSE i \in 1..Len(players) : players[i].sessionId = s].list
PlayersDelete(players, s) == SelectSeq(players, LAMBDA e : e.sessionId # s)
PlayersDeleteAll(players, S) == SelectSeq(players, LAMBDA e : e.sessionId \notin S)

addParticipant(room, s, t) ==
  [room EXCEPT
     !.participants = Put(room.participants, s,
                          [sessionId |-> s, joinedAt |-> t, lastSeen |-> t]),
     !.lastActivity = t]

\* removeParticipant that clears the whole participants map.
removeParticipantAll(room, s, t) ==
  [room EXCEPT
     !.participants = EmptyMap,
     !.players = PlayersDelete(room.players, s),
     !.lastActivity = t]

removeParticipant(room, s, t) ==
  [room EXCEPT
     !.participants = Restrict(room.participants, DOMAIN room.participants \ {s}),
     !.players = PlayersDelete(room.players, s),
     !.lastActivity = t]

\* updateParticipant that does not count as activity of the room.
updateParticipantSilent(room, s, t) ==
  IF s \in DOMAIN room.participants
  THEN [room EXCEPT !.participants[s].lastSeen = t]
  ELSE room

updateParticipant(room, s, t) ==
  IF s \in DOMAIN room.participants
  THEN [room EXCEPT !.participants[s].lastSeen = t, !.lastActivity = t]
  ELSE room

\* A staleness test that also drops a participant seen exactly 5 min ago.
StaleParticipantsInclusive(room, t) ==
  {s \in DOMAIN room.participants : room.participants[s].lastSeen <= t - FiveMinutes}

\* The participants getParticipantCount deletes: lastSeen < now - 5 min.
StaleParticipants(room, t) ==
  {s \in DOMAIN room.participants : room.participants[s].lastSeen < t - FiveMinutes}

\* getParticipantCount that counts as activity.
getParticipantCountTouching(room, t) ==
  [room EXCEPT
     !.participants = Restrict(room.participants,
                               DOMAIN room.participants \ StaleParticipants(room, t)),
     !.players = PlayersDeleteAll(room.players, StaleParticipants(room, t)),
     !.lastActivity = t]

\* getParticipantCount(), its effect on the room: stale participants and
\* their player arrays are deleted.
getParticipantCount(room, t) ==
  [room EXCEPT
     !.participants = Restrict(room.participants,
                               DOMAIN room.participants \ StaleParticipants(room, t)),
     !.players = PlayersDeleteAll(room.players, StaleParticipants(room, t))]

\* getParticipantCount(), its return value: participants.size after the purge.
participantCount(room, t) ==
  Cardinality(DOMAIN getParticipantCount(room, t).participants)

\* addMessage that keeps the first 50 entries instead of the last 50.
addMessageKeepFirst(room, message, t, rnd) ==
  LET stamped == [k \in DOMAIN message \cup {"timestamp", "id"} |->
                    IF k = "timestamp" THEN t
                    ELSE IF k = "id" THEN <<t, rnd>>
                    ELSE message[k]]
      pushed == Append(room.messages, stamped)
  IN [room EXCEPT
        !.messages = IF Len(pushed) > MaxMessages
                     THEN SubSeq(pushed, 1, MaxMessages) ELSE pushed,
        !.lastActivity = t]

\* addMessage(message): push, keep the last 50, touch lastActivity.  The id
\* is Date.now() + Math.random(); `rnd` stands for the random fraction.
addMessage(room, message, t, rnd) ==
  LET stamped == [k \in DOMAIN message \cup {"timestamp", "id"} |->
                    IF k = "timestamp" THEN t
                    ELSE IF k = "id" THEN <<t, rnd>>
                    ELSE message[k]]
      pushed == Append(room.messages, stamped)
  IN [room EXCEPT
        !.messages = IF Len(pushed) > MaxMessages
                     THEN SliceLast(pushed, MaxMessages) ELSE pushed,
        !.lastActivity = t]

\* getRecentMessages without a default window.
getRecentMessagesAll(room, since) ==
  IF since = NoSince
  THEN room.messages
  ELSE SelectSeq(room.messages, LAMBDA msg : msg.timestamp > DateOf(since))

\* getRecentMessages that compares with >= instead of >.
getRecentMessagesInclusive(room, since) ==
  IF since = NoSince
  THEN SliceLast(room.messages, RecentDefault)
  ELSE SelectSeq(room.messages, LAMBDA msg : msg.timestamp >= DateOf(since))

\* getRecentMessages whose default window is one event short.
getRecentMessagesShort(room, since) ==
  IF since = NoSince
  THEN SliceLast(room.messages, RecentDefault - 1)
  ELSE SelectSeq(room.messages, LAMBDA msg : msg.timestamp > DateOf(since))

\* getRecentMessages(since = null)
getRecentMessages(room, since) ==
  IF since = NoSince
  THEN SliceLast(room.messages, RecentDefault)
  ELSE SelectSeq(room.messages, LAMBDA msg : msg.timestamp > DateOf(since))

\* isEmpty() reads getParticipantCount() === 0 (and purges on the way).
isEmpty(room, t) == participantCount(room, t) = 0

isExpired(room, t) == room.lastActivity < t - OneHour

RECURSIVE FlattenPlayers(_)
FlattenPlayers(players) ==
  IF players = <<>> THEN <<>>
  ELSE Head(players).list \o FlattenPlayers(Tail(players))

\* getPlayerData(): all players of all sessions as one flat list.
getPlayerData(room) == FlattenPlayers(room.players)

CountActive(list) == Cardinality({i \in 1..Len(list) : list[i].isActive})

getActivePlayerCount(room) == CountActive(getPlayerData(room))

\* updatePlayerData that starts from an empty players map.
updatePlayerDataOnlyOwn(room, s, playersArray, t) ==
  [room EXCEPT
     !.players = IF playersArray.kind = "array" /\ Len(playersArray.items) > 0
                 THEN << [sessionId |-> s,
                          list |-> [i \in 1..Len(playersArray.items) |->
                                      [name |-> playersArray.items[i].name,
                                       sessionId |-> s,
                                       isActive |-> TRUE, lastUpdated |-> t]]] >>
                 ELSE <<>>,
     !.lastActivity = t]

\* updatePlayerData(sessionId, playersArray).  The argument is what the
\* caller passes: [kind |-> "array", items |-> <<...>>] for an array,
\* [kind |-> "object", ...] for a single player object (whose .length is
\* undefined, so nothing is stored), [kind |-> "undefined"] for none.
updatePlayerData(room, s, playersArray, t) ==
  LET deleted == PlayersDelete(room.players, s)
      activePlayersFromOtherSessions == CountActive(FlattenPlayers(deleted))
      updatedPlayers ==
        [i \in 1..Len(playersArray.items) |->
           LET playerData == playersArray.items[i]
               canBeActive == (activePlayersFromOtherSessions < ActiveLimit)
                              \/ playerData.isActive
           IN [name |-> playerData.name, sessionId |-> s,
               isActive |-> canBeActive, lastUpdated |-> t]]
  IN [room EXCEPT
        !.players = IF playersArray.kind = "array" /\ Len(playersArray.items) > 0
                    THEN Append(deleted, [sessionId |-> s, list |-> updatedPlayers])
                    ELSE deleted,
        !.lastActivity = t]

\* ------------------------------------------------------------- registry
\* A sweep that only deletes expired rooms.
cleanupRoomsExpiredOnly(R, t) ==
  LET keep == {r \in DOMAIN R : ~isExpired(R[r], t)}
  IN [r \in keep |-> getParticipantCount(R[r], t)]

\* cleanupRooms(): every room is asked isEmpty() (which purges it), and is
\* deleted when empty or expired.
cleanupRooms(R, t) ==
  LET keep == {r \in DOMAIN R : ~(isEmpty(R[r], t) \/ isExpired(R[r], t))}
  IN [r \in keep |-> getParticipantCount(R[r], t)]

\* `if (Math.random() < 0.1) cleanupRooms()` at the head of every request.
MaybeCleanup(R, t, sweep) == IF sweep THEN cleanupRooms(R, t) ELSE R

\* ------------------------------------------------------- request inputs
RosterOf(n, active) == [i \in 1..n |-> [name |-> i, isActive |-> active]]
RosterLists == {RosterOf(n, b) : n \in 0..MaxPlayers, b \in BOOLEAN}
\* The `players` field of a sync-players body: an array, or missing.
RosterInputs ==
  {[kind |-> "array", items |-> l] : l \in RosterLists} \cup {[kind |-> "undefined"]}

\* Watermarks a poll may carry: none, or the ISO string of a time around
\* the ends of the backlog and around the default window of 10.
WatermarkTimes(R, roomId) ==
  IF roomId \notin DOMAIN R THEN {0}
  ELSE LET msgs == R[roomId].messages
           idx == {1, Len(msgs) - RecentDefault, Len(msgs)} \cap (1..Len(msgs))
       IN {0} \cup {msgs[i].timestamp : i \in idx}
              \cup {msgs[i].timestamp - 1 : i \in idx}
SinceInputs(R, roomId) ==
  {NoSince} \cup {toISOString(t) : t \in WatermarkTimes(R, roomId) \cap Nat}

\* Sessions a request may name: those issued so far, and the unissued id 0.
KnownSessions == 0..(nextSession - 1)

\* -------------------------------------------------------- history (ghost)
\* joined[s]: the room session s was issued for; left: the sessions that
\* asked to leave that room; seen[s]: the lastSeen last written to the
\* ParticipantRecord of s.  None of them is read by the handlers.
SeenAfter(R, j) ==
  [s \in DOMAIN j |->
     IF j[s] \in DOMAIN R /\ s \in DOMAIN R[j[s]].participants
     THEN R[j[s]].participants[s].lastSeen
     ELSE seen[s]]

History(R, j, l) ==
  /\ joined' = j
  /\ left' = l
  /\ seen' = SeenAfter(R, j)

NotFound(op, R0, roomId, sessionId, sweep) ==
  /\ rooms' = R0
  /\ response' = [op |-> op, roomId |-> roomId, sessionId |-> sessionId,
                  statusCode |-> 404, success |-> FALSE, swept |-> sweep,
                  at |-> now]
  /\ History(R0, joined, left)
  /\ UNCHANGED <<now, nextSession, ticks, appends>>

\* ------------------------------------------------------- exports.handler
\* A request whose body is not JSON: JSON.parse(event.body) stands before
\* the try block, after the sweep, and its SyntaxError leaves the handler.
MalformedBody(op, sweep) ==
  LET R0 == MaybeCleanup(rooms, now, sweep)
  IN /\ rooms' = R0
     /\ response' = [op |-> op, roomId |-> Null, sessionId |-> NoSession,
                     statusCode |-> 0, success |-> FALSE, swept |-> sweep,
                     at |-> now, thrown |-> "SyntaxError"]
     /\ History(R0, joined, left)
     /\ UNCHANGED <<now, nextSession, ticks, appends>>

\* A request whose body is {}: rooms.get(undefined) finds no room.
EmptyBody(op, sweep) ==
  NotFound(op, MaybeCleanup(rooms, now, sweep), Null, NoSession, sweep)

\* GET /health (and the empty path)
Health(sweep) ==
  LET R0 == MaybeCleanup(rooms, now, sweep)
  IN /\ rooms' = R0
     /\ response' = [op |-> "health", roomId |-> Null, sessionId |-> NoSession,
                     statusCode |-> 200, success |-> TRUE, swept |-> sweep,
                     at |-> now,
                     rooms |-> Cardinality(DOMAIN R0),
                     timestamp |-> toISOString(now)]
     /\ History(R0, joined, left)
     /\ UNCHANGED <<now, nextSession, ticks, appends>>

\* A room code picked without asking the registry.
AnyCode(codes, R) == codes

\* do { roomId = generateRoomId() } while (rooms.has(roomId)): the codes
\* the loop can end with, generateRoomId drawing from `codes`.
FreeCodes(codes, R) == codes \ DOMAIN R

\* POST /create-room
CreateRoom(codes, sweep) ==
  /\ nextSession <= MaxSessions
  /\ LET R0 == MaybeCleanup(rooms, now, sweep)
     IN \E roomId \in FreeCodes(codes, R0) :
          LET sessionId == nextSession
              room == addParticipant(NewRoom(roomId, now), sessionId, now)
              counted == getParticipantCount(room, now)
          IN /\ rooms' = Put(R0, roomId, counted)
             /\ response' = [op |-> "create-room", roomId |-> roomId,
                             sessionId |-> sessionId, statusCode |-> 200,
                             success |-> TRUE, swept |-> sweep,
                             at |-> now,
                             participantCount |-> participantCount(room, now),
                             activePlayerCount |-> getActivePlayerCount(counted)]
             /\ nextSession' = nextSession + 1
             /\ History(Put(R0, roomId, counted), Put(joined, sessionId, roomId), left)
             /\ UNCHANGED <<now, ticks, appends>>

\* A join that reads the roster before the stale participants are purged.
JoinRoomUnpurged(roomId, sweep) ==
  LET R0 == MaybeCleanup(rooms, now, sweep)
  IN IF roomId \notin DOMAIN R0
     THEN NotFound("join-room", R0, roomId, NoSession, sweep)
     ELSE /\ nextSession <= MaxSessions
          /\ LET sessionId == nextSession
                 room == addParticipant(R0[roomId], sessionId, now)
                 counted == getParticipantCount(room, now)
             IN /\ rooms' = Put(R0, roomId, counted)
                /\ response' = [op |-> "join-room", roomId |-> roomId,
                                sessionId |-> sessionId, statusCode |-> 200,
                                success |-> TRUE, swept |-> sweep,
                                at |-> now,
                                participantCount |-> participantCount(room, now),
                                activePlayerCount |-> getActivePlayerCount(counted),
                                currentDiceValues |-> counted.currentDiceValues,
                                timerState |-> counted.timerState,
                                players |-> getPlayerData(room)]
                /\ nextSession' = nextSession + 1
                /\ History(Put(R0, roomId, counted), Put(joined, sessionId, roomId), left)
                /\ UNCHANGED <<now, ticks, appends>>

\* POST /join-room of the handler that precedes player management: the same
\* join, answered without activePlayerCount and players.
JoinRoomBase(roomId, sweep) ==
  LET R0 == MaybeCleanup(rooms, now, sweep)
  IN IF roomId \notin DOMAIN R0
     THEN NotFound("join-room", R0, roomId, NoSession, sweep)
     ELSE /\ nextSession <= MaxSessions
          /\ LET sessionId == nextSession
                 room == addParticipant(R0[roomId], sessionId, now)
                 counted == getParticipantCount(room, now)
             IN /\ rooms' = Put(R0, roomId, counted)
                /\ response' = [op |-> "join-room", roomId |-> roomId,
                                sessionId |-> sessionId, statusCode |-> 200,
                                success |-> TRUE, swept |-> sweep,
                                at |-> now,
                                participantCount |-> participantCount(room, now),
                                currentDiceValues |-> counted.currentDiceValues,
                                timerState |-> counted.timerState]
                /\ nextSession' = nextSession + 1
                /\ History(Put(R0, roomId, counted), Put(joined, sessionId, roomId), left)
                /\ UNCHANGED <<now, ticks, appends>>

\* POST /join-room
JoinRoom(roomId, sweep) ==
  LET R0 == MaybeCleanup(rooms, now, sweep)
  IN IF roomId \notin DOMAIN R0
     THEN NotFound("join-room", R0, roomId, NoSession, sweep)
     ELSE /\ nextSession <= MaxSessions
          /\ LET sessionId == nextSession
                 room == addParticipant(R0[roomId], sessionId, now)
                 counted == getParticipantCount(room, now)
             IN /\ rooms' = Put(R0, roomId, counted)
                /\ response' = [op |-> "join-room", roomId |-> roomId,
                                sessionId |-> sessionId, statusCode |-> 200,
                                success |-> TRUE, swept |-> sweep,
                                at |-> now,
                                participantCount |-> participantCount(room, now),
                                activePlayerCount |-> getActivePlayerCount(counted),
                                currentDiceValues |-> counted.currentDiceValues,
                                timerState |-> counted.timerState,
                                players |-> getPlayerData(counted)]
                /\ nextSession' = nextSession + 1
                /\ History(Put(R0, roomId, counted), Put(joined, sessionId, roomId), left)
                /\ UNCHANGED <<now, ticks, appends>>

\* The 200 response of the three sync handlers and what they leave behind.
SyncDone(op, R0, roomId, sessionId, sweep, room) ==
  LET counted == getParticipantCount(room, now)
  IN /\ rooms' = Put(R0, roomId, counted)
     /\ response' = [op |-> op, roomId |-> roomId, sessionId |-> sessionId,
                     statusCode |-> 200, success |-> TRUE, swept |-> sweep,
                     at |-> now,
                     participantCount |-> participantCount(room, now),
                     activePlayerCount |-> getActivePlayerCount(counted),
                     players |-> getPlayerData(counted)]
     /\ appends' = appends + 1
     /\ History(Put(R0, roomId, counted), joined, left)
     /\ UNCHANGED <<now, nextSession, ticks>>

\* POST /sync-dice
SyncDice(roomId, sessionId, diceValues, sweep) ==
  LET R0 == MaybeCleanup(rooms, now, sweep)
  IN IF roomId \notin DOMAIN R0
     THEN NotFound("sync-dice", R0, roomId, sessionId, sweep)
     ELSE LET seenRoom == updateParticipant(R0[roomId], sessionId, now)
                 rolled == [seenRoom EXCEPT !.currentDiceValues = diceValues]
                 logged == addMessage(rolled,
                                      [type |-> "dice-roll", values |-> diceValues,
                                       fromSession |-> sessionId],
                                      now, appends + 1)
             IN SyncDone("sync-dice", R0, roomId, sessionId, sweep, logged)

\* A timer update that keeps the fields the call does not carry.
stampTimerMerging(old, timerState, by, t) ==
  [k \in DOMAIN old \cup DOMAIN timerState \cup {"lastUpdatedBy", "lastUpdatedAt"} |->
     IF k = "lastUpdatedBy" THEN by
     ELSE IF k = "lastUpdatedAt" THEN t
     ELSE IF k \in DOMAIN timerState THEN timerState[k]
     ELSE old[k]]

\* { ...timerState, lastUpdatedBy: sessionId, lastUpdatedAt: new Date() }:
\* the room's former timerState `old` is not read.
stampTimer(old, timerState, by, t) ==
  [k \in DOMAIN timerState \cup {"lastUpdatedBy", "lastUpdatedAt"} |->
     IF k = "lastUpdatedBy" THEN by
     ELSE IF k = "lastUpdatedAt" THEN t
     ELSE timerState[k]]

\* POST /sync-timer
SyncTimer(roomId, sessionId, timerState, sweep) ==
  LET R0 == MaybeCleanup(rooms, now, sweep)
  IN IF roomId \notin DOMAIN R0
     THEN NotFound("sync-timer", R0, roomId, sessionId, sweep)
     ELSE LET seenRoom == updateParticipant(R0[roomId], sessionId, now)
                 stamped == stampTimer(seenRoom.timerState, timerState, sessionId, now)
                 timed == [seenRoom EXCEPT !.timerState = stamped]
                 logged == addMessage(timed,
                                      [type |-> "timer-sync", timerState |-> stamped,
                                       fromSession |-> sessionId],
                                      now, appends + 1)
             IN SyncDone("sync-timer", R0, roomId, sessionId, sweep, logged)

\* The /sync-players endpoint as given for the extended Room: the submitted
\* array goes to updatePlayerData as it is.
SyncPlayersEndpoint(roomId, sessionId, players, sweep) ==
  LET R0 == MaybeCleanup(rooms, now, sweep)
  IN IF roomId \notin DOMAIN R0
     THEN NotFound("sync-players", R0, roomId, sessionId, sweep)
     ELSE LET seenRoom == updateParticipant(R0[roomId], sessionId, now)
                 updated == updatePlayerData(seenRoom, sessionId, players, now)
                 logged == addMessage(updated,
                                      [type |-> "players-update",
                                       players |-> getPlayerData(updated),
                                       fromSession |-> sessionId],
                                      now, appends + 1)
             IN SyncDone("sync-players", R0, roomId, sessionId, sweep, logged)

\* players.forEach(playerData => ... room.updatePlayerData(sessionId,
\* playerWithSession)) of the handler: every submitted player is handed to
\* updatePlayerData as a single object.
RECURSIVE ForEachPlayer(_, _, _, _)
ForEachPlayer(room, sessionId, items, t) ==
  IF items = <<>> THEN room
  ELSE LET playerData == Head(items)
           \* room.players.get(sessionId) is an array: it has no isActive
           ownIsActive == FALSE
           playerWithSession ==
             [kind |-> "object", name |-> playerData.name, sessionId |-> sessionId,
              isActive |-> (getActivePlayerCount(room) < ActiveLimit)
                           \/ (PlayersHas(room.players, sessionId) /\ ownIsActive)]
       IN ForEachPlayer(updatePlayerData(room, sessionId, playerWithSession, t),
                        sessionId, Tail(items), t)

\* POST /sync-players of exports.handler
SyncPlayersHandler(roomId, sessionId, players, sweep) ==
  LET R0 == MaybeCleanup(rooms, now, sweep)
  IN IF roomId \notin DOMAIN R0
     THEN NotFound("sync-players", R0, roomId, sessionId, sweep)
     ELSE LET seenRoom == updateParticipant(R0[roomId], sessionId, now)
          IN IF players.kind = "undefined"
             THEN \* players.forEach throws; the catch block answers 500
                  /\ rooms' = Put(R0, roomId, seenRoom)
                  /\ response' = [op |-> "sync-players", roomId |-> roomId,
                                  sessionId |-> sessionId, statusCode |-> 500,
                                  success |-> FALSE, swept |-> sweep,
                                  at |-> now]
                  /\ History(Put(R0, roomId, seenRoom), joined, left)
                  /\ UNCHANGED <<now, nextSession, ticks, appends>>
             ELSE LET updated == ForEachPlayer(seenRoom, sessionId, players.items, now)
                         logged == addMessage(updated,
                                              [type |-> "players-update",
                                               players |-> getPlayerData(updated),
                                               fromSession |-> sessionId],
                                              now, appends + 1)
                     IN SyncDone("sync-players", R0, roomId, sessionId, sweep, logged)

\* A poll that forgets the filter.
filterNothing(messages, sessionId) == messages

\* messages.filter(msg => msg.fromSession !== sessionId)
filterOwn(messages, sessionId) ==
  SelectSeq(messages, LAMBDA msg : msg.fromSession # sessionId)

\* POST /poll.  `recent` keeps the handler's local `messages`, the result
\* of getRecentMessages, next to the response body.
Poll(roomId, sessionId, since, sweep) ==
  LET R0 == MaybeCleanup(rooms, now, sweep)
  IN IF roomId \notin DOMAIN R0
     THEN NotFound("poll", R0, roomId, sessionId, sweep)
     ELSE LET seenRoom == updateParticipant(R0[roomId], sessionId, now)
              messages == getRecentMessages(seenRoom, since)
              filteredMessages == filterOwn(messages, sessionId)
              counted == getParticipantCount(seenRoom, now)
          IN /\ rooms' = Put(R0, roomId, counted)
             /\ response' = [op |-> "poll", roomId |-> roomId, sessionId |-> sessionId,
                             statusCode |-> 200, success |-> TRUE, swept |-> sweep,
                             at |-> now, since |-> since,
                             recent |-> messages,
                             messages |-> filteredMessages,
                             participantCount |-> participantCount(seenRoom, now),
                             activePlayerCount |-> getActivePlayerCount(counted),
                             currentDiceValues |-> counted.currentDiceValues,
                             timerState |-> counted.timerState,
                             players |-> getPlayerData(counted),
                             timestamp |-> toISOString(now)]
             /\ History(Put(R0, roomId, counted), joined, left)
             /\ UNCHANGED <<now, nextSession, ticks, appends>>

\* POST /leave-room
LeaveRoom(roomId, sessionId, sweep) ==
  LET R0 == MaybeCleanup(rooms, now, sweep)
      ok == [op |-> "leave-room", roomId |-> roomId, sessionId |-> sessionId,
             statusCode |-> 200, success |-> TRUE, swept |-> sweep,
             at |-> now]
  IN IF roomId \notin DOMAIN R0
     THEN /\ rooms' = R0
          /\ response' = ok
          /\ History(R0, joined, left)
          /\ UNCHANGED <<now, nextSession, ticks, appends>>
     ELSE LET removed == removeParticipant(R0[roomId], sessionId, now)
                 logged == addMessage(removed,
                                      [type |-> "players-update",
                                       players |-> getPlayerData(removed),
                                       fromSession |-> sessionId],
                                      now, appends + 1)
                 R1 == IF isEmpty(logged, now)
                       THEN Remove(R0, roomId)
                       ELSE Put(R0, roomId, getParticipantCount(logged, now))
             IN /\ rooms' = R1
                /\ response' = ok
                /\ appends' = appends + 1
                /\ History(R1, joined,
                           IF sessionId \in DOMAIN joined /\ joined[sessionId] = roomId
                           THEN left \cup {sessionId} ELSE left)
                /\ UNCHANGED <<now, nextSession, ticks>>

\* GET /room/<id>
RoomInfo(roomId, sweep) ==
  LET R0 == MaybeCleanup(rooms, now, sweep)
  IN IF roomId \notin DOMAIN R0
     THEN NotFound("room-info", R0, roomId, NoSession, sweep)
     ELSE LET counted == getParticipantCount(R0[roomId], now)
          IN /\ rooms' = Put(R0, roomId, counted)
             /\ response' = [op |-> "room-info", roomId |-> roomId, sessionId |-> NoSession,
                             statusCode |-> 200, success |-> TRUE, swept |-> sweep,
                             at |-> now,
                             participantCount |-> participantCount(R0[roomId], now),
                             activePlayerCount |-> getActivePlayerCount(counted),
                             timerState |-> counted.timerState,
                             players |-> getPlayerData(counted),
                             createdAt |-> counted.createdAt,
                             lastActivity |-> counted.lastActivity]
             /\ History(Put(R0, roomId, counted), joined, left)
             /\ UNCHANGED <<now, nextSession, ticks, appends>>

\* The clock moves on between two requests.
Tick(d) ==
  /\ ticks < MaxTicks
  /\ now' = now + d
  /\ ticks' = ticks + 1
  /\ UNCHANGED <<rooms, nextSession, response, appends, joined, left, seen>>

\* ------------------------------------------------------------------ Init
NoResponse == [op |-> "none", roomId |-> Null, sessionId |-> NoSession,
               statusCode |-> 0, success |-> FALSE, swept |-> FALSE, at |-> 0]

\* The socket backend right after start: no room, no connection.
NoReply == [event |-> "none"]
PushIdle ==
  /\ ioRooms = EmptyMap
  /\ heap = EmptyMap
  /\ nextObject = 1
  /\ currentRoom = EmptyMap
  /\ nextSocket = 1
  /\ emitted = <<>>
  /\ reply = NoReply
  /\ events = 0

\* DDDSyncClient.constructor
NewClient ==
  [ isConnected |-> FALSE, currentRoomId |-> Null, sessionId |-> NoSession,
    participantCount |-> 0, activePlayerCount |-> 0,
    pollInterval |-> FALSE,          \* the interval handle: set or null
    pollDue |-> 0,                   \* when the interval fires next
    pollEvery |-> 0,                 \* the delay the interval was set with
    script |-> "part_001",           \* the client file the page has loaded
    pollDelay |-> 2000, lastPollTimestamp |-> NoSince,
    pc |-> "idle",                   \* where the async leaveRoom stands
    stray |-> 0,                     \* live intervals this.pollInterval does not hold
    fresh |-> FALSE ]                \* history: no poll sent since the room was entered

\* DDDSyncClient.constructor of the socket build, before init().
NewIoClient ==
  [ socket |-> 0,                    \* this.socket: the latest socket, 0 for null
    isConnected |-> FALSE, currentRoomId |-> Null, participantCount |-> 0,
    reconnectAttempts |-> 0,
    status |-> <<"none", "">>,       \* what updateStatus reported last
    sockets |-> <<>>,                \* every socket made by connect(), none is closed
    ids |-> <<>>,                    \* the socket.id of each, 0 before its handshake
    timers |-> <<>>,                 \* when the pending setTimeout(connect) are due
    failures |-> 0,                  \* history: failures met so far
    scheduled |-> 0 ]                \* history: connects scheduled since 'connect'

\* No client has been used.
ClientIdle ==
  /\ ioClient = NewIoClient
  /\ client = NewClient
  /\ wire = <<>>
  /\ fired = <<>>
  /\ handled = {}
  /\ leaveCalled = FALSE

Idle ==
  /\ response = NoResponse
  /\ ticks = 0
  /\ appends = 0
  /\ left = {}
  /\ server = "pull"
  /\ PushIdle
  /\ ClientIdle

\* A request handled by the polling backend.
ServerStep(A) == server = "pull" /\ A /\ UNCHANGED <<server, pushVars>>

\* A step of the polling backend, no client of the model being involved.
PullStep(A) == ServerStep(A) /\ UNCHANGED clientVars

\* The process right after start: `const rooms = new Map()`.
Init ==
  /\ rooms = EmptyMap
  /\ now = 0
  /\ nextSession = 1
  /\ joined = EmptyMap
  /\ seen = EmptyMap
  /\ Idle

\* Membership: sessions come and go in the room code "R1" while the clock
\* advances; a request may also name the id 0 no session was issued under.
NextMembership ==
  \/ \E d \in {1, FiveMinutes} : PullStep(Tick(d))
  \/ \E sweep \in BOOLEAN : PullStep(Health(sweep))
  \/ \E sweep \in BOOLEAN : PullStep(CreateRoom({"R1"}, sweep))
  \/ \E sweep \in BOOLEAN : PullStep(JoinRoom("R1", sweep))
  \/ /\ appends < MaxLeaves
     /\ \E sessionId \in KnownSessions, sweep \in BOOLEAN :
           PullStep(LeaveRoom("R1", sessionId, sweep))
  \/ \E sweep \in BOOLEAN : PullStep(RoomInfo("R1", sweep))

SpecMembership == Init /\ [][NextMembership]_vars

\* A room that has been in use: session 1 created R1 at time 0, session 2
\* joined in the same millisecond, and session 1 has rolled the dice once
\* a millisecond since, PrefillLen times.
PrefillMessages ==
  [k \in 1..PrefillLen |->
     [type |-> "dice-roll", values |-> <<3, 5>>, fromSession |-> 1,
      timestamp |-> k, id |-> <<k, 0>>]]

InitUsed ==
  /\ rooms = Put(EmptyMap, "R1",
                 [ NewRoom("R1", 0) EXCEPT
                     !.participants =
                        Put(Put(EmptyMap, 1,
                                [sessionId |-> 1, joinedAt |-> 0, lastSeen |-> PrefillLen]),
                            2, [sessionId |-> 2, joinedAt |-> 0, lastSeen |-> 0]),
                     !.currentDiceValues = <<3, 5>>,
                     !.messages = SliceLast(PrefillMessages, MaxMessages),
                     !.lastActivity = PrefillLen ])
  /\ now = PrefillLen
  /\ nextSession = 3
  /\ joined = Put(Put(EmptyMap, 1, "R1"), 2, "R1")
  /\ seen = Put(Put(EmptyMap, 1, PrefillLen), 2, 0)
  /\ Idle

\* The event log: the two sessions of the used room append events of every
\* type.  No participant of this room grows stale within MaxTicks
\* milliseconds, so the sweep at the head of a request finds nothing to do
\* and is left out.
NextLog ==
  \/ PullStep(Tick(1))
  \/ /\ appends < MaxAppends
     /\ \E sessionId \in {1, 2}, diceValues \in DiceInputs :
           PullStep(SyncDice("R1", sessionId, diceValues, FALSE))
  \/ /\ appends < MaxAppends
     /\ \E sessionId \in {1, 2}, timerState \in TimerInputs :
           PullStep(SyncTimer("R1", sessionId, timerState, FALSE))
  \/ /\ appends < MaxAppends
     /\ \E sessionId \in {1, 2} :
           PullStep(SyncPlayersEndpoint("R1", sessionId,
                               [kind |-> "array", items |-> RosterOf(1, TRUE)], FALSE))
  \/ /\ appends < MaxAppends
     /\ \E sessionId \in {1, 2} : PullStep(LeaveRoom("R1", sessionId, FALSE))

SpecLog == InitUsed /\ [][NextLog]_vars

\* Polling: the two sessions of the used room poll with and without a
\* watermark while events are appended.
NextPoll ==
  \/ PullStep(Tick(1))
  \/ /\ appends < MaxPollAppends
     /\ \E sessionId \in {1, 2} : PullStep(SyncDice("R1", sessionId, <<1, 1>>, FALSE))
  \/ /\ appends < MaxPollAppends
     /\ \E sessionId \in {1, 2} :
           PullStep(SyncTimer("R1", sessionId, [isRunning |-> FALSE, remainingTime |-> 30], FALSE))
  \/ \E sessionId \in {1, 2} :
        \E since \in SinceInputs(rooms, "R1") : PullStep(Poll("R1", sessionId, since, FALSE))

SpecPoll == InitUsed /\ [][NextPoll]_vars

\* A room with n participants: session 1 created R1 at time 0 and the
\* sessions 2..n joined it in the same millisecond.
InitRoomOf(n) ==
  /\ rooms = Put(EmptyMap, "R1",
                 [ NewRoom("R1", 0) EXCEPT
                     !.participants =
                        [s \in 1..n |-> [sessionId |-> s, joinedAt |-> 0, lastSeen |-> 0]] ])
  /\ now = 0
  /\ nextSession = n + 1
  /\ joined = [s \in 1..n |-> "R1"]
  /\ seen = [s \in 1..n |-> 0]
  /\ Idle

HasSubmitted(sessionId) ==
  /\ "R1" \in DOMAIN rooms
  /\ \E i \in 1..Len(rooms["R1"].messages) :
        rooms["R1"].messages[i].fromSession = sessionId

\* The roster scenario: each session of the room submits, once, one player
\* it wants active; the sessions do so in any order.
NextRoster ==
  \/ \E sessionId \in 1..ScenarioSessions :
        /\ ~HasSubmitted(sessionId)
        /\ PullStep(SyncPlayersEndpoint("R1", sessionId,
                               [kind |-> "array", items |-> RosterOf(1, TRUE)], FALSE))
  \/ \E sessionId \in 1..ScenarioSessions :
        /\ ~HasSubmitted(sessionId)
        /\ PullStep(SyncPlayersHandler("R1", sessionId,
                              [kind |-> "array", items |-> RosterOf(1, TRUE)], FALSE))

SpecRoster == InitRoomOf(ScenarioSessions) /\ [][NextRoster]_vars

\* Rosters: two sessions of a room, and the unissued id 0, submit rosters
\* and ask for the room; between requests more than five minutes may pass.
ArrayInputs == {[kind |-> "array", items |-> l] : l \in RosterLists}

NextPlayers ==
  \/ PullStep(Tick(FiveMinutes + 1))
  \/ /\ appends < MaxAppends
     /\ \E sessionId \in 0..2, players \in ArrayInputs, sweep \in BOOLEAN :
           PullStep(SyncPlayersEndpoint("R1", sessionId, players, sweep))
  \/ /\ appends < MaxAppends
     /\ \E sessionId \in 0..2, players \in ArrayInputs, sweep \in BOOLEAN :
           PullStep(SyncPlayersHandler("R1", sessionId, players, sweep))
  \/ \E sweep \in BOOLEAN : PullStep(RoomInfo("R1", sweep))

SpecPlayers == InitRoomOf(2) /\ [][NextPlayers]_vars

\* ============================================ sync-server.js (sockets)
NoRoom == 0                     \* currentRoom = null
NoSocket == 0                   \* excludeSocketId = null
RangeOf(f) == {f[x] : x \in DOMAIN f}

\* ------------------------------------------------------------ class Room
\* constructor(id)
ioNewRoom(id, t) ==
  [ id |-> id,
    participants |-> <<>>,     \* Set of participant objects, in insertion order
    currentDiceValues |-> NoDice,
    timerState |-> [isRunning |-> FALSE, remainingTime |-> 0, duration |-> 60,
                    startTime |-> Null],
    createdAt |-> t ]

ioAddParticipant(room, socketId, t) ==
  [room EXCEPT
     !.participants = Append(@, [socketId |-> socketId, id |-> socketId, joinedAt |-> t])]

ioRemoveParticipant(room, socketId) ==
  [room EXCEPT !.participants = SelectSeq(@, LAMBDA p : p.socketId # socketId)]

ioGetParticipantCount(room) == Len(room.participants)

ioIsEmpty(room) == Len(room.participants) = 0

\* A broadcast that does not leave out the excluded socket.
broadcastToAll(room, event, data, excludeSocketId) ==
  [i \in 1..Len(room.participants) |->
     [to |-> room.participants[i].socketId, event |-> event, data |-> data]]

\* broadcast(io, event, data, excludeSocketId): the emissions it makes, one
\* io.to(socketId).emit per participant other than the excluded one.
broadcast(room, event, data, excludeSocketId) ==
  LET targets == SelectSeq(room.participants, LAMBDA p : p.socketId # excludeSocketId)
  IN [i \in 1..Len(targets) |->
        [to |-> targets[i].socketId, event |-> event, data |-> data]]

\* ------------------------------------------------------------- registry
\* A sweep that deletes every room older than 24 hours and no other.
cleanupOldRooms(R, H, t) ==
  Restrict(R, {code \in DOMAIN R : ~(t - H[R[code]].createdAt > OneDay)})

\* cleanupEmptyRooms(): the registry it leaves.
cleanupEmptyRooms(R, H, t) ==
  Restrict(R, {code \in DOMAIN R :
                 ~(ioIsEmpty(H[R[code]]) \/ t - H[R[code]].createdAt > OneDay)})

\* Room objects nothing refers to any more are garbage.
Collect(H, R, C) == Restrict(H, DOMAIN H \cap (RangeOf(R) \cup RangeOf(C)))

\* What a handler leaves behind: registry R, objects H, closures C.
PushDone(R, H, C, out, answer) ==
  /\ ioRooms' = R
  /\ heap' = Collect(H, R, C)
  /\ currentRoom' = C
  /\ emitted' = out
  /\ reply' = answer

\* ------------------------------------------------------------ REST API
\* GET /api/rooms/:roomId/info
GetApiRoomInfo(roomId) ==
  /\ PushDone(ioRooms, heap, currentRoom, <<>>,
              IF roomId \notin DOMAIN ioRooms
              THEN [event |-> "info", status |-> 404, roomId |-> roomId]
              ELSE [event |-> "info", status |-> 200, roomId |-> roomId,
                    participantCount |-> ioGetParticipantCount(heap[ioRooms[roomId]]),
                    timerState |-> heap[ioRooms[roomId]].timerState,
                    createdAt |-> heap[ioRooms[roomId]].createdAt])
  /\ UNCHANGED <<nextObject, nextSocket>>

\* POST /api/rooms
PostApiRooms(codes) ==
  /\ nextObject <= MaxRoomObjects
  /\ \E roomId \in FreeCodes(codes, ioRooms) :
        PushDone(Put(ioRooms, roomId, nextObject),
                 Put(heap, nextObject, ioNewRoom(roomId, now)),
                 currentRoom, <<>>,
                 [event |-> "api-rooms", status |-> 200, roomId |-> roomId])
  /\ nextObject' = nextObject + 1
  /\ UNCHANGED nextSocket

\* ------------------------------------------------- io.on('connection')
\* callback(answer): without an acknowledgement function the call is a
\* TypeError that no handler catches.
Acknowledge(callback, answer) ==
  IF callback THEN answer
  ELSE [event |-> answer.event, socket |-> answer.socket, thrown |-> "TypeError"]

OnConnection ==
  /\ PushDone(ioRooms, heap, Put(currentRoom, nextSocket, NoRoom), <<>>,
              [event |-> "connection", socket |-> nextSocket])
  /\ nextSocket' = nextSocket + 1
  /\ UNCHANGED nextObject

\* socket.on('create-room')
OnCreateRoomWith(socketId, codes, callback) ==
  /\ socketId \in DOMAIN currentRoom
  /\ nextObject <= MaxRoomObjects
  /\ \E roomId \in FreeCodes(codes, ioRooms) :
        LET room == ioAddParticipant(ioNewRoom(roomId, now), socketId, now)
        IN PushDone(Put(ioRooms, roomId, nextObject),
                    Put(heap, nextObject, room),
                    [currentRoom EXCEPT ![socketId] = nextObject], <<>>,
                    Acknowledge(callback,
                      [event |-> "create-room", socket |-> socketId, success |-> TRUE,
                       roomId |-> roomId,
                       participantCount |-> ioGetParticipantCount(room)]))
  /\ nextObject' = nextObject + 1
  /\ UNCHANGED nextSocket

OnCreateRoom(socketId, codes) == OnCreateRoomWith(socketId, codes, TRUE)

\* A join that announces the participant count it found before adding the
\* socket.
OnJoinRoomCountBefore(socketId, roomId, callback) ==
  /\ socketId \in DOMAIN currentRoom
  /\ IF roomId \notin DOMAIN ioRooms
     THEN PushDone(ioRooms, heap, currentRoom, <<>>,
                   Acknowledge(callback,
                     [event |-> "join-room", socket |-> socketId, success |-> FALSE,
                      roomId |-> roomId]))
     ELSE LET cur == currentRoom[socketId]
              H1 == IF cur # NoRoom
                    THEN [heap EXCEPT ![cur] = ioRemoveParticipant(@, socketId)]
                    ELSE heap
              leftOut == IF cur # NoRoom
                         THEN broadcast(H1[cur], "participant-left",
                                        [participantCount |-> ioGetParticipantCount(H1[cur])],
                                        socketId)
                         ELSE <<>>
              obj == ioRooms[roomId]
              H2 == [H1 EXCEPT ![obj] = ioAddParticipant(@, socketId, now)]
              joinedOut == broadcast(H2[obj], "participant-joined",
                                     [participantCount |-> ioGetParticipantCount(H1[obj])],
                                     socketId)
          IN PushDone(ioRooms, H2, [currentRoom EXCEPT ![socketId] = obj],
                      leftOut \o joinedOut,
                      Acknowledge(callback,
                        [event |-> "join-room", socket |-> socketId, success |-> TRUE,
                         roomId |-> roomId,
                         participantCount |-> ioGetParticipantCount(H2[obj]),
                         currentDiceValues |-> H2[obj].currentDiceValues,
                         timerState |-> H2[obj].timerState]))
  /\ UNCHANGED <<nextObject, nextSocket>>

\* socket.on('join-room')
OnJoinRoomWith(socketId, roomId, callback) ==
  /\ socketId \in DOMAIN currentRoom
  /\ IF roomId \notin DOMAIN ioRooms
     THEN PushDone(ioRooms, heap, currentRoom, <<>>,
                   Acknowledge(callback,
                     [event |-> "join-room", socket |-> socketId, success |-> FALSE,
                      roomId |-> roomId]))
     ELSE LET cur == currentRoom[socketId]
              H1 == IF cur # NoRoom
                    THEN [heap EXCEPT ![cur] = ioRemoveParticipant(@, socketId)]
                    ELSE heap
              leftOut == IF cur # NoRoom
                         THEN broadcast(H1[cur], "participant-left",
                                        [participantCount |-> ioGetParticipantCount(H1[cur])],
                                        socketId)
                         ELSE <<>>
              obj == ioRooms[roomId]
              H2 == [H1 EXCEPT ![obj] = ioAddParticipant(@, socketId, now)]
              joinedOut == broadcast(H2[obj], "participant-joined",
                                     [participantCount |-> ioGetParticipantCount(H2[obj])],
                                     socketId)
          IN PushDone(ioRooms, H2, [currentRoom EXCEPT ![socketId] = obj],
                      leftOut \o joinedOut,
                      Acknowledge(callback,
                        [event |-> "join-room", socket |-> socketId, success |-> TRUE,
                         roomId |-> roomId,
                         participantCount |-> ioGetParticipantCount(H2[obj]),
                         currentDiceValues |-> H2[obj].currentDiceValues,
                         timerState |-> H2[obj].timerState]))
  /\ UNCHANGED <<nextObject, nextSocket>>

OnJoinRoom(socketId, roomId) == OnJoinRoomWith(socketId, roomId, TRUE)

\* socket.on('leave-room')
OnLeaveRoom(socketId) ==
  /\ socketId \in DOMAIN currentRoom
  /\ LET cur == currentRoom[socketId]
         H1 == [heap EXCEPT ![cur] = ioRemoveParticipant(@, socketId)]
     IN IF cur = NoRoom
        THEN PushDone(ioRooms, heap, currentRoom, <<>>,
                      [event |-> "leave-room", socket |-> socketId])
        ELSE PushDone(ioRooms, H1, [currentRoom EXCEPT ![socketId] = NoRoom],
                      broadcast(H1[cur], "participant-left",
                                [participantCount |-> ioGetParticipantCount(H1[cur])],
                                socketId),
                      [event |-> "leave-room", socket |-> socketId])
  /\ UNCHANGED <<nextObject, nextSocket>>

\* socket.on('sync-dice-roll')
OnSyncDiceRoll(socketId, diceValues) ==
  /\ socketId \in DOMAIN currentRoom
  /\ LET cur == currentRoom[socketId]
         H1 == [heap EXCEPT ![cur].currentDiceValues = diceValues]
     IN IF cur = NoRoom
        THEN PushDone(ioRooms, heap, currentRoom, <<>>,
                      [event |-> "sync-dice-roll", socket |-> socketId])
        ELSE PushDone(ioRooms, H1, currentRoom,
                      broadcast(H1[cur], "dice-roll-received",
                                [values |-> diceValues, fromParticipant |-> socketId,
                                 timestamp |-> now],
                                socketId),
                      [event |-> "sync-dice-roll", socket |-> socketId])
  /\ UNCHANGED <<nextObject, nextSocket>>

\* socket.on('sync-timer')
OnSyncTimer(socketId, timerData) ==
  /\ socketId \in DOMAIN currentRoom
  /\ LET cur == currentRoom[socketId]
         stamped == stampTimer(IF cur = NoRoom THEN timerData ELSE heap[cur].timerState,
                               timerData, socketId, now)
         H1 == [heap EXCEPT ![cur].timerState = stamped]
     IN IF cur = NoRoom
        THEN PushDone(ioRooms, heap, currentRoom, <<>>,
                      [event |-> "sync-timer", socket |-> socketId])
        ELSE PushDone(ioRooms, H1, currentRoom,
                      broadcast(H1[cur], "timer-sync-received", stamped, socketId),
                      [event |-> "sync-timer", socket |-> socketId])
  /\ UNCHANGED <<nextObject, nextSocket>>

\* socket.on('send-message')
OnSendMessage(socketId, message) ==
  /\ socketId \in DOMAIN currentRoom
  /\ LET cur == currentRoom[socketId]
     IN PushDone(ioRooms, heap, currentRoom,
                 IF cur = NoRoom THEN <<>>
                 ELSE broadcast(heap[cur], "message-received",
                                [message |-> message, fromParticipant |-> socketId,
                                 timestamp |-> now],
                                socketId),
                 [event |-> "send-message", socket |-> socketId])
  /\ UNCHANGED <<nextObject, nextSocket>>

\* socket.on('ping')
OnPing(socketId) ==
  /\ socketId \in DOMAIN currentRoom
  /\ PushDone(ioRooms, heap, currentRoom, <<>>,
              [event |-> "ping", socket |-> socketId, pong |-> TRUE, timestamp |-> now])
  /\ UNCHANGED <<nextObject, nextSocket>>

\* A disconnect that leaves the emptied room in the registry.
OnDisconnectKeepingRoom(socketId) ==
  /\ socketId \in DOMAIN currentRoom
  /\ LET cur == currentRoom[socketId]
         H1 == [heap EXCEPT ![cur] = ioRemoveParticipant(@, socketId)]
         gone == Restrict(currentRoom, DOMAIN currentRoom \ {socketId})
     IN IF cur = NoRoom
        THEN PushDone(ioRooms, heap, gone, <<>>,
                      [event |-> "disconnect", socket |-> socketId])
        ELSE PushDone(ioRooms, H1, gone,
                      broadcast(H1[cur], "participant-left",
                                [participantCount |-> ioGetParticipantCount(H1[cur])],
                                NoSocket),
                      [event |-> "disconnect", socket |-> socketId])
  /\ UNCHANGED <<nextObject, nextSocket>>

\* socket.on('disconnect'): the connection and its closure are gone.
OnDisconnect(socketId) ==
  /\ socketId \in DOMAIN currentRoom
  /\ LET cur == currentRoom[socketId]
         H1 == [heap EXCEPT ![cur] = ioRemoveParticipant(@, socketId)]
         gone == Restrict(currentRoom, DOMAIN currentRoom \ {socketId})
     IN IF cur = NoRoom
        THEN PushDone(ioRooms, heap, gone, <<>>,
                      [event |-> "disconnect", socket |-> socketId])
        ELSE PushDone(IF ioIsEmpty(H1[cur])
                      THEN Restrict(ioRooms, DOMAIN ioRooms \ {H1[cur].id})
                      ELSE ioRooms,
                      H1, gone,
                      broadcast(H1[cur], "participant-left",
                                [participantCount |-> ioGetParticipantCount(H1[cur])],
                                NoSocket),
                      [event |-> "disconnect", socket |-> socketId])
  /\ UNCHANGED <<nextObject, nextSocket>>

\* setInterval(cleanupEmptyRooms, 60 * 60 * 1000)
CleanupInterval ==
  /\ PushDone(cleanupEmptyRooms(ioRooms, heap, now), heap, currentRoom, <<>>,
              [event |-> "cleanup"])
  /\ UNCHANGED <<nextObject, nextSocket>>

\* A step of the socket backend: a connection, a query or the interval
\* timer (PushStep), or an event of a room (PushEvent).
PushFrame(A) ==
  server = "push" /\ A /\ UNCHANGED <<server, now, ticks, pullVars, clientVars>>
PushStep(A) == PushFrame(A) /\ UNCHANGED events
PushEvent(A) == events < MaxEvents /\ PushFrame(A) /\ events' = events + 1

\* The clock moves on, whichever backend runs.
Pass(d) == Tick(d) /\ UNCHANGED <<server, pushVars, clientVars>>

\* ------------------------------------------------- the two registries
Codes == {"R1", "R2"}

\* The process runs one of the two backends, fresh after start.
InitRegistry ==
  /\ rooms = EmptyMap
  /\ now = 0
  /\ nextSession = 1
  /\ joined = EmptyMap
  /\ seen = EmptyMap
  /\ response = NoResponse
  /\ ticks = 0
  /\ appends = 0
  /\ left = {}
  /\ server \in {"pull", "push"}
  /\ PushIdle
  /\ ClientIdle

\* Rooms are created, joined and left and the registry is swept; between
\* two events more than an hour (polling backend) or more than a day
\* (socket backend) may pass.
NextRegistry ==
  \/ server = "pull" /\ Pass(OneHour + 1)
  \/ server = "push" /\ Pass(OneDay + 1)
  \/ \E sweep \in BOOLEAN : PullStep(Health(sweep))
  \/ \E sweep \in BOOLEAN : PullStep(CreateRoom(Codes, sweep))
  \/ \E roomId \in Codes : PullStep(JoinRoom(roomId, FALSE))
  \/ /\ appends < MaxLeaves
     /\ \E roomId \in Codes, sessionId \in KnownSessions :
           PullStep(LeaveRoom(roomId, sessionId, FALSE))
  \/ nextSocket <= MaxSockets /\ PushStep(OnConnection)
  \/ PushEvent(PostApiRooms(Codes))
  \/ \E socketId \in DOMAIN currentRoom : PushEvent(OnCreateRoom(socketId, Codes))
  \/ \E socketId \in DOMAIN currentRoom, roomId \in Codes :
        PushEvent(OnJoinRoom(socketId, roomId))
  \/ \E socketId \in DOMAIN currentRoom : PushEvent(OnLeaveRoom(socketId))
  \/ \E socketId \in DOMAIN currentRoom : PushEvent(OnDisconnect(socketId))
  \/ PushStep(CleanupInterval)

SpecRegistry == InitRegistry /\ [][NextRegistry]_vars

\* The sweeps and what feeds them: rooms are created, joined and left, time
\* passes, and the sweep runs: in the polling backend when a request takes
\* the 10% branch, in the socket backend when the hourly interval fires.
SweepingRequest == PullStep(Health(TRUE))
SweepingInterval == PushStep(CleanupInterval)

NextSweep ==
  \/ server = "pull" /\ Pass(OneHour + 1)
  \/ server = "push" /\ Pass(OneDay + 1)
  \/ PullStep(CreateRoom({"R1"}, FALSE))
  \/ PullStep(JoinRoom("R1", FALSE))
  \/ /\ appends < MaxLeaves
     /\ \E sessionId \in KnownSessions : PullStep(LeaveRoom("R1", sessionId, FALSE))
  \/ SweepingRequest
  \/ nextSocket <= MaxSockets /\ PushStep(OnConnection)
  \/ PushEvent(PostApiRooms({"R1"}))
  \/ \E socketId \in DOMAIN currentRoom : PushEvent(OnCreateRoom(socketId, {"R1"}))
  \/ \E socketId \in DOMAIN currentRoom : PushEvent(OnJoinRoom(socketId, "R1"))
  \/ \E socketId \in DOMAIN currentRoom : PushEvent(OnLeaveRoom(socketId))
  \/ SweepingInterval

\* Requests keep arriving and some of them sweep; the interval keeps firing.
FairSpecSweep ==
  /\ InitRegistry
  /\ [][NextSweep]_vars
  /\ WF_vars(SweepingRequest)
  /\ WF_vars(SweepingInterval)

\* Requests that name a session: the participant 1 of a room of two, and
\* the id 0 that no session was issued under, send each kind of request.
NextNamed ==
  \/ PullStep(Tick(1))
  \/ /\ appends < MaxAppends
     /\ \E sessionId \in {0, 1} : PullStep(SyncDice("R1", sessionId, <<3, 5>>, FALSE))
  \/ /\ appends < MaxAppends
     /\ \E sessionId \in {0, 1} :
           PullStep(SyncTimer("R1", sessionId,
                              [isRunning |-> FALSE, remainingTime |-> 30], FALSE))
  \/ /\ appends < MaxAppends
     /\ \E sessionId \in {0, 1} :
           PullStep(SyncPlayersEndpoint("R1", sessionId,
                                        [kind |-> "array", items |-> RosterOf(1, FALSE)],
                                        FALSE))
  \/ /\ appends < MaxAppends
     /\ \E sessionId \in {0, 1} :
           PullStep(SyncPlayersHandler("R1", sessionId,
                                       [kind |-> "array", items |-> RosterOf(1, FALSE)],
                                       FALSE))
  \/ \E sessionId \in {0, 1}, since \in {NoSince, toISOString(0)} :
        PullStep(Poll("R1", sessionId, since, FALSE))
  \/ /\ appends < MaxAppends
     /\ \E sessionId \in {0, 1} : PullStep(LeaveRoom("R1", sessionId, FALSE))

SpecNamed == InitRoomOf(2) /\ [][NextNamed]_vars

\* --------------------------------------------------- the polling client
\* One DDDSyncClient talks to the polling backend: its requests and the
\* responses to them are under way in `wire`, in any order.
Without(seq, i) == SubSeq(seq, 1, i - 1) \o SubSeq(seq, i + 1, Len(seq))

Underway(kind, stage) ==
  {i \in DOMAIN wire : wire[i].kind = kind /\ wire[i].stage = stage}

\* DDDSyncClient.stopPolling
stopPolling(c) == [c EXCEPT !.pollInterval = FALSE]

\* DDDSyncClient.handleMessage: the callback a message is handed to.
handleMessage(message) ==
  CASE message.type = "dice-roll" -> "onDiceReceived"
    [] message.type = "timer-sync" -> "onTimerSync"
    [] message.type = "players-update" -> "onPlayersReceived"
    [] OTHER -> "none"

\* handleMessage of sync-client.js, which knows no players-update.
handleMessageBase(message) ==
  CASE message.type = "dice-roll" -> "onDiceReceived"
    [] message.type = "timer-sync" -> "onTimerSync"
    [] OTHER -> "none"

\* A catch block that leaves pollDelay as it is.
keepDelay(c) == c

\* The catch block of the interval callback: poll less often, 10 s at most.
backOff(c) ==
  [c EXCEPT !.pollDelay = Min((c.pollDelay * 3) \div 2, MaxPollDelay)]

\* The interval callback of startPolling up to its await: it returns when
\* the client has no room or no session, and sends POST /poll otherwise.
PollTimer ==
  /\ server = "pull"
  /\ client.pollInterval
  /\ now >= client.pollDue
  /\ Cardinality(Underway("poll", "request") \cup Underway("poll", "response"))
       < MaxInflight
  /\ client' = [client EXCEPT
                  !.pollDue = now + client.pollEvery,
                  !.fresh = IF client.currentRoomId = Null \/ client.sessionId = NoSession
                            THEN @ ELSE FALSE]
  /\ wire' = IF client.currentRoomId = Null \/ client.sessionId = NoSession
             THEN wire
             ELSE Append(wire, [kind |-> "poll", stage |-> "request",
                                roomId |-> client.currentRoomId,
                                sessionId |-> client.sessionId,
                                since |-> client.lastPollTimestamp])
  /\ fired' = <<>>
  /\ UNCHANGED <<handled, leaveCalled>>
  /\ UNCHANGED <<server, now, ticks, pullVars, pushVars, ioClient>>

\* The backend handles a /poll request that is under way.
ServePoll ==
  \E i \in Underway("poll", "request") :
    /\ ServerStep(Poll(wire[i].roomId, wire[i].sessionId, wire[i].since, FALSE))
    /\ wire' = Append(Without(wire, i),
                      [kind |-> "poll", stage |-> "response", body |-> response'])
    /\ UNCHANGED <<client, fired, handled, leaveCalled, ioClient>>

\* The interval callback of startPolling after its await: makeRequest
\* throws unless the status is ok, and the catch block backs off.  The
\* client of part_001 also follows activePlayerCount, hands the roster of
\* every answer to onPlayersReceived and resets pollDelay; the client of
\* sync-client.js does none of the three.
PollReturns ==
  \E i \in Underway("poll", "response") :
    LET body == wire[i].body
        full == client.script = "part_001"
    IN /\ server = "pull"
       /\ wire' = Without(wire, i)
       /\ IF body.statusCode = 200 /\ body.success
          THEN LET changed == \/ body.participantCount # client.participantCount
                              \/ /\ full
                                 /\ body.activePlayerCount # client.activePlayerCount
               IN /\ client' = [client EXCEPT
                                  !.participantCount =
                                     IF changed THEN body.participantCount ELSE @,
                                  !.activePlayerCount =
                                     IF changed /\ full THEN body.activePlayerCount ELSE @,
                                  !.lastPollTimestamp = body.timestamp,
                                  !.pollDelay = IF full THEN PollDelay ELSE @]
                  /\ fired' = (IF changed THEN <<"onRoomUpdate">> ELSE <<>>)
                                \o [k \in 1..Len(body.messages) |->
                                      IF full THEN handleMessage(body.messages[k])
                                      ELSE handleMessageBase(body.messages[k])]
                                \o (IF full THEN <<"onPlayersReceived">> ELSE <<>>)
                  /\ handled' = handled \cup
                                  {body.messages[k].id : k \in 1..Len(body.messages)}
          ELSE /\ client' = backOff(client)
               /\ fired' = <<>>
               /\ UNCHANGED handled
       /\ UNCHANGED leaveCalled
       /\ UNCHANGED <<server, now, ticks, pullVars, pushVars, ioClient>>

\* fetch rejects: a /poll request is lost on the network and the catch
\* block of the interval callback backs off.
PollFails ==
  \E i \in Underway("poll", "request") :
    /\ server = "pull"
    /\ wire' = Without(wire, i)
    /\ client' = backOff(client)
    /\ fired' = <<>>
    /\ UNCHANGED <<handled, leaveCalled>>
    /\ UNCHANGED <<server, now, ticks, pullVars, pushVars, ioClient>>

\* What leaveRoom does once its request is over.
ClearRoom(c) ==
  [stopPolling(c) EXCEPT !.currentRoomId = Null, !.sessionId = NoSession,
                         !.participantCount = 0, !.activePlayerCount = 0,
                         !.lastPollTimestamp = NoSince, !.pc = "idle"]

\* DDDSyncClient.leaveRoom up to its await.
LeaveRoomCall ==
  /\ server = "pull"
  /\ client.pc = "idle"
  /\ ~leaveCalled
  /\ leaveCalled' = TRUE
  /\ IF client.currentRoomId # Null /\ client.sessionId # NoSession
     THEN /\ wire' = Append(wire, [kind |-> "leave-room", stage |-> "request",
                                   roomId |-> client.currentRoomId,
                                   sessionId |-> client.sessionId,
                                   since |-> NoSince])
          /\ client' = [client EXCEPT !.pc = "leaving"]
          /\ fired' = <<>>
     ELSE /\ client' = ClearRoom(client)
          /\ fired' = <<"onStatusChange">>
          /\ UNCHANGED wire
  /\ UNCHANGED handled
  /\ UNCHANGED <<server, now, ticks, pullVars, pushVars, ioClient>>

\* The backend handles a /leave-room request that is under way.
ServeLeave ==
  \E i \in Underway("leave-room", "request") :
    /\ ServerStep(LeaveRoom(wire[i].roomId, wire[i].sessionId, FALSE))
    /\ wire' = Append(Without(wire, i),
                      [kind |-> "leave-room", stage |-> "response", body |-> response'])
    /\ UNCHANGED <<client, fired, handled, leaveCalled, ioClient>>

\* DDDSyncClient.leaveRoom after its await, whatever the request's outcome.
LeaveRoomReturns ==
  \E i \in Underway("leave-room", "response") :
    /\ server = "pull"
    /\ client.pc = "leaving"
    /\ wire' = Without(wire, i)
    /\ client' = ClearRoom(client)
    /\ fired' = <<"onStatusChange">>
    /\ UNCHANGED <<handled, leaveCalled>>
    /\ UNCHANGED <<server, now, ticks, pullVars, pushVars, ioClient>>

\* DDDSyncClient.disconnect
Disconnect ==
  /\ server = "pull"
  /\ client.pc = "idle"
  /\ ~leaveCalled
  /\ leaveCalled' = TRUE
  /\ client' = [stopPolling(client) EXCEPT
                  !.isConnected = FALSE, !.currentRoomId = Null,
                  !.sessionId = NoSession, !.participantCount = 0,
                  !.activePlayerCount = 0]
  /\ fired' = <<>>
  /\ UNCHANGED <<wire, handled>>
  /\ UNCHANGED <<server, now, ticks, pullVars, pushVars, ioClient>>

\* Session 1 created R1 at time 0 and the client joined it as session 2 in
\* the same millisecond; PollDelay later the callbacks joinRoom scheduled
\* have run and the interval of startPolling is due for the first time.
InitClientOf(script) ==
  /\ rooms = Put(EmptyMap, "R1",
                 [ NewRoom("R1", 0) EXCEPT
                     !.participants =
                        [s \in 1..2 |-> [sessionId |-> s, joinedAt |-> 0, lastSeen |-> 0]] ])
  /\ now = PollDelay
  /\ nextSession = 3
  /\ joined = [s \in 1..2 |-> "R1"]
  /\ seen = [s \in 1..2 |-> 0]
  /\ response = NoResponse
  /\ ticks = 0
  /\ appends = 0
  /\ left = {}
  /\ server = "pull"
  /\ PushIdle
  /\ client = [NewClient EXCEPT !.isConnected = TRUE, !.currentRoomId = "R1",
                                !.sessionId = 2, !.participantCount = 2,
                                !.pollInterval = TRUE, !.pollDue = PollDelay,
                                !.pollEvery = PollDelay, !.script = script,
                                !.fresh = TRUE]
  /\ wire = <<>>
  /\ fired = <<>>
  /\ handled = {}
  /\ leaveCalled = FALSE
  /\ ioClient = NewIoClient

InitClient == InitClientOf("part_001")

Scripts == {"part_001", "sync-client.js"}

\* The client polls while its peer, session 1, rolls.
NextClient ==
  \/ Pass(PollDelay)
  \/ /\ appends < MaxAppends
     /\ PullStep(SyncDice("R1", 1, <<3, 5>>, FALSE))
  \/ PollTimer
  \/ ServePoll
  \/ PollReturns

SpecClient == InitClient /\ [][NextClient]_vars

\* Either client polls while requests get lost on the network.
NextBackoff ==
  \/ \E d \in {1, PollDelay} : Pass(d)
  \/ PollTimer
  \/ ServePoll
  \/ PollReturns
  \/ PollFails

SpecBackoff == (\E script \in Scripts : InitClientOf(script)) /\ [][NextBackoff]_vars

\* The client polls and, at any moment, leaves its room or disconnects.
NextLeaving ==
  \/ Pass(PollDelay)
  \/ PollTimer
  \/ ServePoll
  \/ PollReturns
  \/ LeaveRoomCall
  \/ ServeLeave
  \/ LeaveRoomReturns
  \/ Disconnect

SpecLeaving == InitClient /\ [][NextLeaving]_vars

\* ------------------------------------------------- broadcasts of a room
\* Socket 1 created R1 at time 0 and socket 2 joined it; socket 3 is
\* connected and in no room.
InitBroadcast ==
  /\ rooms = EmptyMap
  /\ now = 0
  /\ nextSession = 1
  /\ joined = EmptyMap
  /\ seen = EmptyMap
  /\ response = NoResponse
  /\ ticks = 0
  /\ appends = 0
  /\ left = {}
  /\ ClientIdle
  /\ server = "push"
  /\ ioRooms = Put(EmptyMap, "R1", 1)
  /\ heap = Put(EmptyMap, 1,
                ioAddParticipant(ioAddParticipant(ioNewRoom("R1", 0), 1, 0), 2, 0))
  /\ nextObject = 2
  /\ currentRoom = Put(Put(Put(EmptyMap, 1, 1), 2, 1), 3, NoRoom)
  /\ nextSocket = 4
  /\ emitted = broadcast(ioAddParticipant(ioAddParticipant(ioNewRoom("R1", 0), 1, 0), 2, 0),
                         "participant-joined", [participantCount |-> 2], 2)
  /\ reply = [event |-> "join-room", socket |-> 2, success |-> TRUE, roomId |-> "R1",
              participantCount |-> 2, currentDiceValues |-> NoDice,
              timerState |-> ioNewRoom("R1", 0).timerState]
  /\ events = 0

NextBroadcast ==
  \/ \E roomId \in Codes : PushStep(GetApiRoomInfo(roomId))
  \/ \E socketId \in DOMAIN currentRoom : PushStep(OnPing(socketId))
  \/ \E socketId \in DOMAIN currentRoom : PushEvent(OnCreateRoom(socketId, Codes))
  \/ \E socketId \in DOMAIN currentRoom, roomId \in Codes :
        PushEvent(OnJoinRoom(socketId, roomId))
  \/ \E socketId \in DOMAIN currentRoom : PushEvent(OnLeaveRoom(socketId))
  \/ \E socketId \in DOMAIN currentRoom : PushEvent(OnDisconnect(socketId))
  \/ \E socketId \in DOMAIN currentRoom, diceValues \in DiceInputs :
        PushEvent(OnSyncDiceRoll(socketId, diceValues))
  \/ \E socketId \in DOMAIN currentRoom, timerData \in TimerInputs :
        PushEvent(OnSyncTimer(socketId, timerData))
  \/ \E socketId \in DOMAIN currentRoom : PushEvent(OnSendMessage(socketId, "hi"))

SpecBroadcast == InitBroadcast /\ [][NextBroadcast]_vars

\* --------------------------------------------------- the socket client
\* DDDSyncClient.updateStatus
updateStatus(c, status, text) == [c EXCEPT !.status = <<status, text>>]

\* DDDSyncClient.connect: a new socket, with the listeners of
\* setupEventListeners on it; the socket it replaces is not closed.
connect(c) ==
  [c EXCEPT !.sockets = Append(@, "opening"), !.ids = Append(@, 0),
            !.socket = Len(c.sockets) + 1]

\* An attemptReconnect that never gives up.
attemptReconnectForever(c, t) ==
  [updateStatus(c, "connecting", "Reconnect...") EXCEPT
     !.reconnectAttempts = @ + 1,
     !.timers = Append(@, t + ReconnectDelay * (c.reconnectAttempts + 1)),
     !.scheduled = @ + 1]

\* DDDSyncClient.attemptReconnect at time t.
attemptReconnect(c, t) ==
  IF c.reconnectAttempts >= MaxReconnectAttempts
  THEN updateStatus(c, "offline", "Reconnect fehlgeschlagen")
  ELSE [updateStatus(c, "connecting", "Reconnect...") EXCEPT
          !.reconnectAttempts = @ + 1,
          !.timers = Append(@, t + ReconnectDelay * (c.reconnectAttempts + 1)),
          !.scheduled = @ + 1]

\* A step of the socket client.
IoClientStep(c) ==
  /\ server = "push"
  /\ ioClient' = c
  /\ UNCHANGED <<server, now, ticks, pullVars, pushVars,
                 client, wire, fired, handled, leaveCalled>>

\* socket.on('connect') of socket k
IoConnect(k) ==
  /\ ioClient.sockets[k] = "opening"
  /\ IoClientStep([updateStatus(ioClient, "online", "Bereit") EXCEPT
                     !.sockets[k] = "open", !.isConnected = TRUE,
                     !.reconnectAttempts = 0, !.scheduled = 0])

\* socket.on('connect_error') of socket k, which goes on trying.
IoConnectError(k) ==
  /\ ioClient.sockets[k] = "opening"
  /\ ioClient.failures < MaxFailures
  /\ IoClientStep(attemptReconnect(
                    [updateStatus(ioClient, "offline", "Verbindungsfehler") EXCEPT
                       !.failures = @ + 1],
                    now))

\* socket.on('disconnect') of socket k: after 'io server disconnect' the
\* socket stays closed and the client does not reconnect.
IoDisconnect(k, reason) ==
  /\ ioClient.sockets[k] = "open"
  /\ ioClient.failures < MaxFailures
  /\ LET down == [updateStatus(ioClient, "offline", "Verbindung unterbrochen") EXCEPT
                    !.isConnected = FALSE, !.failures = @ + 1]
     IN IoClientStep(IF reason = "io server disconnect"
                     THEN [down EXCEPT !.sockets[k] = "closed"]
                     ELSE attemptReconnect([down EXCEPT !.sockets[k] = "opening"], now))

\* A setTimeout of attemptReconnect is due and calls connect().
ReconnectTimer(j) ==
  /\ ioClient.timers[j] <= now
  /\ IoClientStep(connect([ioClient EXCEPT !.timers = Without(@, j)]))

\* Time passes until the next reconnect timer is due.
Elapse ==
  /\ server = "push"
  /\ ioClient.timers # <<>>
  /\ \A j \in DOMAIN ioClient.timers : ioClient.timers[j] > now
  /\ \E j \in DOMAIN ioClient.timers :
        /\ \A i \in DOMAIN ioClient.timers : ioClient.timers[j] <= ioClient.timers[i]
        /\ now' = ioClient.timers[j]
  /\ UNCHANGED <<server, ticks, pullVars, pushVars, clientVars>>

\* The page has made its client: init() has called connect().
InitIoClient ==
  /\ rooms = EmptyMap
  /\ now = 0
  /\ nextSession = 1
  /\ joined = EmptyMap
  /\ seen = EmptyMap
  /\ response = NoResponse
  /\ ticks = 0
  /\ appends = 0
  /\ left = {}
  /\ server = "push"
  /\ PushIdle
  /\ client = NewClient
  /\ wire = <<>>
  /\ fired = <<>>
  /\ handled = {}
  /\ leaveCalled = FALSE
  /\ ioClient = connect(NewIoClient)

DisconnectReasons == {"io server disconnect", "transport close"}

NextReconnect ==
  \/ \E k \in DOMAIN ioClient.sockets : IoConnect(k)
  \/ \E k \in DOMAIN ioClient.sockets : IoConnectError(k)
  \/ \E k \in DOMAIN ioClient.sockets, reason \in DisconnectReasons :
        IoDisconnect(k, reason)
  \/ \E j \in DOMAIN ioClient.timers : ReconnectTimer(j)
  \/ Elapse

SpecReconnect == InitIoClient /\ [][NextReconnect]_vars

\* Polling a room with a long backlog and a room with none yet.
SpecRecent == (InitUsed \/ InitRoomOf(2)) /\ [][NextPoll]_vars

\* ------------------------------------------------- requests gone wrong
\* Either backend, with a room in use, meets bodies that are not JSON,
\* bodies without fields, a roster that is missing, and events without an
\* acknowledgement function, next to well-formed requests.
Endpoints == {"join-room", "sync-players", "sync-dice", "sync-timer", "poll", "leave-room"}

NextFaults ==
  \/ server = "pull" /\ Pass(1)
  \/ \E op \in Endpoints, sweep \in BOOLEAN : PullStep(MalformedBody(op, sweep))
  \/ \E op \in Endpoints \ {"leave-room"}, sweep \in BOOLEAN : PullStep(EmptyBody(op, sweep))
  \/ /\ appends < MaxAppends
     /\ \E players \in {[kind |-> "undefined"], [kind |-> "array", items |-> RosterOf(1, TRUE)]} :
           PullStep(SyncPlayersHandler("R1", 1, players, FALSE))
  \/ /\ appends < MaxAppends
     /\ PullStep(SyncDice("R1", 2, <<3, 5>>, FALSE))
  \/ \E socketId \in DOMAIN currentRoom, callback \in BOOLEAN :
        PushEvent(OnCreateRoomWith(socketId, Codes, callback))
  \/ \E socketId \in DOMAIN currentRoom, roomId \in Codes, callback \in BOOLEAN :
        PushEvent(OnJoinRoomWith(socketId, roomId, callback))
  \/ \E socketId \in DOMAIN currentRoom : PushEvent(OnLeaveRoom(socketId))

SpecFaults == (InitRoomOf(2) \/ InitBroadcast) /\ [][NextFaults]_vars

\* --------------------------------------------------------- timer updates
\* The sessions of a pull room and the sockets of a push room set the
\* timer, with more and with fewer fields, in any order.
NextTimer ==
  \/ server = "pull" /\ Pass(1)
  \/ /\ appends < MaxAppends
     /\ \E sessionId \in 1..2, timerState \in TimerInputs :
           PullStep(SyncTimer("R1", sessionId, timerState, FALSE))
  \/ \E socketId \in DOMAIN currentRoom, timerData \in TimerInputs :
        PushEvent(OnSyncTimer(socketId, timerData))
  \/ \E socketId \in DOMAIN currentRoom : PushEvent(OnJoinRoom(socketId, "R1"))

SpecTimer == (InitRoomOf(2) \/ InitBroadcast) /\ [][NextTimer]_vars

\* Arrivals: the session of a room rolls dice, sets the timer and, while the
\* room holds no player, submits a roster; more than five minutes may pass;
\* newcomers join through either join handler.
NextSnapshot ==
  \/ PullStep(Tick(FiveMinutes + 1))
  \/ /\ appends < MaxAppends
     /\ \E diceValues \in DiceInputs : PullStep(SyncDice("R1", 1, diceValues, FALSE))
  \/ /\ appends < MaxAppends
     /\ \E timerState \in TimerInputs : PullStep(SyncTimer("R1", 1, timerState, FALSE))
  \/ /\ "R1" \in DOMAIN rooms /\ rooms["R1"].players = <<>>
     /\ PullStep(SyncPlayersEndpoint("R1", 1,
                            [kind |-> "array", items |-> RosterOf(1, TRUE)], FALSE))
  \/ \E sweep \in BOOLEAN : PullStep(JoinRoom("R1", sweep))
  \/ \E sweep \in BOOLEAN : PullStep(JoinRoomBase("R1", sweep))

SpecSnapshot == InitRoomOf(1) /\ [][NextSnapshot]_vars

\* Old rooms: the session of room R1 and newcomers call the room handlers
\* with the code R1 or the unissued code R2, before and after more than an
\* hour without a request.
Request(op, roomId, sweep) ==
  CASE op = "join-room" -> JoinRoom(roomId, sweep)
    [] op = "sync-dice" -> SyncDice(roomId, 1, <<3, 5>>, sweep)
    [] op = "sync-timer" ->
         SyncTimer(roomId, 1, [isRunning |-> FALSE, remainingTime |-> 30], sweep)
    [] op = "sync-players" ->
         SyncPlayersHandler(roomId, 1, [kind |-> "array", items |-> RosterOf(1, TRUE)],
                            sweep)
    [] op = "poll" -> Poll(roomId, 1, NoSince, sweep)

RoomOps == {"join-room", "sync-dice", "sync-timer", "sync-players", "poll"}

\* The room code and the outcome of Math.random() < 0.1 of a join or poll.
Calls == {<<"R1", FALSE>>, <<"R2", FALSE>>, <<"R2", TRUE>>}

NextExpiry ==
  \/ Pass(OneHour + 1)
  \/ \E call \in Calls : PullStep(Request("join-room", call[1], call[2]))
  \/ /\ appends < MaxAppends
     /\ \E op \in {"sync-dice", "sync-timer", "sync-players"}, roomId \in Codes :
           PullStep(Request(op, roomId, FALSE))
  \/ \E call \in Calls : PullStep(Request("poll", call[1], call[2]))

SpecExpiry == InitRoomOf(1) /\ [][NextExpiry]_vars

\* ------------------------------------- the socket client and its server
\* A step in which the client and the socket backend both act: an event the
\* client emits is handled, and acknowledged, at once.
Linked(A, c) ==
  /\ server = "push"
  /\ A
  /\ ioClient' = c
  /\ UNCHANGED <<server, now, ticks, pullVars, client, wire, fired, handled, leaveCalled>>

\* Socket k completes its handshake: io.on('connection') gives it a fresh
\* socket.id, and its 'connect' listener runs.
ClientConnects(k) ==
  /\ ioClient.sockets[k] = "opening"
  /\ nextSocket <= MaxSockets + 1
  /\ Linked(OnConnection,
            [updateStatus(ioClient, "online", "Bereit") EXCEPT
               !.sockets[k] = "open", !.ids[k] = nextSocket, !.isConnected = TRUE,
               !.reconnectAttempts = 0, !.scheduled = 0])
  /\ UNCHANGED events

\* What the acknowledgement of create-room or join-room does to the client.
Entered(c, answer) ==
  IF answer.success
  THEN [updateStatus(c, "online", "Raum") EXCEPT
          !.currentRoomId = answer.roomId,
          !.participantCount = answer.participantCount]
  ELSE c

\* this.socket is connected, so that what is emitted on it is sent at once.
SocketOpen ==
  /\ ioClient.socket \in DOMAIN ioClient.sockets
  /\ ioClient.sockets[ioClient.socket] = "open"

\* DDDSyncClient.createRoom
ClientCreateRoom ==
  /\ ioClient.isConnected
  /\ SocketOpen
  /\ events < MaxEvents
  /\ Linked(OnCreateRoom(ioClient.ids[ioClient.socket], Codes), Entered(ioClient, reply'))
  /\ events' = events + 1

\* DDDSyncClient.joinRoom
ClientJoinRoom(roomId) ==
  /\ ioClient.isConnected
  /\ SocketOpen
  /\ events < MaxEvents
  /\ Linked(OnJoinRoom(ioClient.ids[ioClient.socket], roomId), Entered(ioClient, reply'))
  /\ events' = events + 1

\* DDDSyncClient.leaveRoom
ClientLeaveRoom ==
  /\ ioClient.isConnected
  /\ ioClient.currentRoomId # Null
  /\ SocketOpen
  /\ events < MaxEvents
  /\ Linked(OnLeaveRoom(ioClient.ids[ioClient.socket]),
            [updateStatus(ioClient, "online", "Bereit") EXCEPT
               !.currentRoomId = Null, !.participantCount = 0])
  /\ events' = events + 1

\* DDDSyncClient.syncDiceRoll
ClientSyncDiceRoll(values) ==
  /\ ioClient.isConnected
  /\ ioClient.currentRoomId # Null
  /\ SocketOpen
  /\ events < MaxEvents
  /\ Linked(OnSyncDiceRoll(ioClient.ids[ioClient.socket], values), ioClient)
  /\ events' = events + 1

\* The connection of socket k breaks: the server's 'disconnect' handler and
\* the client's 'disconnect' listener run.
ConnectionLost(k) ==
  /\ ioClient.sockets[k] = "open"
  /\ ioClient.failures < MaxFailures
  /\ events < MaxEvents
  /\ Linked(OnDisconnect(ioClient.ids[k]),
            attemptReconnect(
              [updateStatus(ioClient, "offline", "Verbindung unterbrochen") EXCEPT
                 !.isConnected = FALSE, !.failures = @ + 1,
                 !.sockets[k] = "opening", !.ids[k] = 0],
              now))
  /\ events' = events + 1

\* The page has made its client, and room R1 holds another socket.
InitLinked ==
  /\ rooms = EmptyMap
  /\ now = 0
  /\ nextSession = 1
  /\ joined = EmptyMap
  /\ seen = EmptyMap
  /\ response = NoResponse
  /\ ticks = 0
  /\ appends = 0
  /\ left = {}
  /\ server = "push"
  /\ ioRooms = Put(EmptyMap, "R1", 1)
  /\ heap = Put(EmptyMap, 1, ioAddParticipant(ioNewRoom("R1", 0), 1, 0))
  /\ nextObject = 2
  /\ currentRoom = Put(EmptyMap, 1, 1)
  /\ nextSocket = 2
  /\ emitted = <<>>
  /\ reply = [event |-> "create-room", socket |-> 1, success |-> TRUE, roomId |-> "R1",
              participantCount |-> 1]
  /\ events = 0
  /\ client = NewClient
  /\ wire = <<>>
  /\ fired = <<>>
  /\ handled = {}
  /\ leaveCalled = FALSE
  /\ ioClient = connect(NewIoClient)

NextLinked ==
  \/ \E k \in DOMAIN ioClient.sockets : ClientConnects(k)
  \/ ClientCreateRoom
  \/ \E roomId \in Codes : ClientJoinRoom(roomId)
  \/ ClientLeaveRoom
  \/ \E values \in DiceInputs : ClientSyncDiceRoll(values)
  \/ \E k \in DOMAIN ioClient.sockets : ConnectionLost(k)
  \/ \E j \in DOMAIN ioClient.timers : ReconnectTimer(j)
  \/ Elapse

SpecLinked == InitLinked /\ [][NextLinked]_vars

\* ------------------------------------------ the polling client's rooms
\* A startPolling that does not clear the interval it replaces.
startPollingLeaking(c, t) ==
  [c EXCEPT !.pollInterval = TRUE, !.pollDue = t + c.pollDelay,
            !.pollEvery = c.pollDelay,
            !.stray = IF c.pollInterval THEN @ + 1 ELSE @]

\* DDDSyncClient.startPolling at time t: the interval this.pollInterval
\* holds is cleared, and a new one is set with the present pollDelay.
startPolling(c, t) ==
  [c EXCEPT !.pollInterval = TRUE, !.pollDue = t + c.pollDelay,
            !.pollEvery = c.pollDelay]

\* createRoom and joinRoom after a successful answer, at time t.
EnterRoom(c, body, t) ==
  [startPolling(c, t) EXCEPT
     !.currentRoomId = body.roomId, !.sessionId = body.sessionId,
     !.participantCount = body.participantCount,
     !.activePlayerCount = IF c.script = "part_001" THEN body.activePlayerCount ELSE @,
     !.fresh = TRUE]

\* The callbacks joinRoom leaves to setTimeout.
Scheduled(c, body) ==
  (IF body.currentDiceValues # NoDice THEN <<"later:onDiceReceived">> ELSE <<>>)
    \o <<"later:onTimerSync">>
    \o (IF c.script = "part_001" THEN <<"later:onPlayersReceived">> ELSE <<>>)

\* DDDSyncClient.createRoom / joinRoom up to the await (they throw when the
\* client is not connected): the request is sent.
EnterCall(kind, roomId) ==
  /\ server = "pull"
  /\ nextSession <= MaxSessions
  /\ Underway("create-room", "request") \cup Underway("create-room", "response")
       \cup Underway("join-room", "request") \cup Underway("join-room", "response") = {}
  /\ wire' = Append(wire, [kind |-> kind, stage |-> "request", roomId |-> roomId,
                           sessionId |-> NoSession, since |-> NoSince])
  /\ fired' = <<>>
  /\ UNCHANGED <<client, handled, leaveCalled>>
  /\ UNCHANGED <<server, now, ticks, pullVars, pushVars, ioClient>>

CreateRoomCall ==
  /\ client.isConnected
  /\ EnterCall("create-room", Null)

JoinRoomCall(roomId) ==
  /\ client.isConnected
  /\ EnterCall("join-room", roomId)

\* The backend handles a /create-room or /join-room request under way.
ServeCreate ==
  \E i \in Underway("create-room", "request") :
    /\ ServerStep(CreateRoom({"R1"}, FALSE))
    /\ wire' = Append(Without(wire, i),
                      [kind |-> "create-room", stage |-> "response", body |-> response'])
    /\ UNCHANGED <<client, fired, handled, leaveCalled, ioClient>>

ServeJoin ==
  \E i \in Underway("join-room", "request") :
    /\ ServerStep(JoinRoom(wire[i].roomId, FALSE))
    /\ wire' = Append(Without(wire, i),
                      [kind |-> "join-room", stage |-> "response", body |-> response'])
    /\ UNCHANGED <<client, fired, handled, leaveCalled, ioClient>>

\* DDDSyncClient.createRoom after its await.
CreateRoomReturns ==
  \E i \in Underway("create-room", "response") :
    LET body == wire[i].body
    IN /\ server = "pull"
       /\ wire' = Without(wire, i)
       /\ IF body.statusCode = 200 /\ body.success
          THEN /\ client' = EnterRoom(client, body, now)
               /\ fired' = <<"onStatusChange">>
          ELSE /\ fired' = <<"onError">>
               /\ UNCHANGED client
       /\ UNCHANGED <<handled, leaveCalled>>
       /\ UNCHANGED <<server, now, ticks, pullVars, pushVars, ioClient>>

\* DDDSyncClient.joinRoom after its await.
JoinRoomReturns ==
  \E i \in Underway("join-room", "response") :
    LET body == wire[i].body
    IN /\ server = "pull"
       /\ wire' = Without(wire, i)
       /\ IF body.statusCode = 200 /\ body.success
          THEN /\ client' = EnterRoom(client, body, now)
               /\ fired' = <<"onStatusChange">> \o Scheduled(client, body)
          ELSE /\ fired' = <<"onError">>
               /\ UNCHANGED client
       /\ UNCHANGED <<handled, leaveCalled>>
       /\ UNCHANGED <<server, now, ticks, pullVars, pushVars, ioClient>>

\* The page has loaded one of the two client files and its health check
\* has succeeded; the registry is empty.
InitSession ==
  /\ rooms = EmptyMap
  /\ now = 0
  /\ nextSession = 1
  /\ joined = EmptyMap
  /\ seen = EmptyMap
  /\ response = NoResponse
  /\ ticks = 0
  /\ appends = 0
  /\ left = {}
  /\ server = "pull"
  /\ PushIdle
  /\ \E script \in Scripts :
        client = [NewClient EXCEPT !.isConnected = TRUE, !.script = script]
  /\ wire = <<>>
  /\ fired = <<>>
  /\ handled = {}
  /\ leaveCalled = FALSE
  /\ ioClient = NewIoClient

\* The client creates, joins and leaves rooms and polls meanwhile.
NextSession ==
  \/ Pass(PollDelay)
  \/ CreateRoomCall
  \/ ServeCreate
  \/ CreateRoomReturns
  \/ JoinRoomCall("R1")
  \/ ServeJoin
  \/ JoinRoomReturns
  \/ PollTimer
  \/ ServePoll
  \/ PollReturns
  \/ LeaveRoomCall
  \/ ServeLeave
  \/ LeaveRoomReturns
  \/ Disconnect

SpecSession == InitSession /\ [][NextSession]_vars

\* The client creates, joins and leaves rooms while its polls are lost on
\* the network.
NextTimers ==
  \/ Pass(PollDelay)
  \/ CreateRoomCall
  \/ ServeCreate
  \/ CreateRoomReturns
  \/ JoinRoomCall("R1")
  \/ ServeJoin
  \/ JoinRoomReturns
  \/ PollTimer
  \/ PollFails
  \/ LeaveRoomCall
  \/ ServeLeave
  \/ LeaveRoomReturns
  \/ Disconnect

SpecTimers == InitSession /\ [][NextTimers]_vars

\* Activity: newcomers join room R1 while its first session rolls, submits
\* a roster, polls and leaves, at once or after more than an hour; a join
\* may come with the sweep.
NextActivity ==
  \/ Pass(OneHour + 1)
  \/ \E sweep \in BOOLEAN : PullStep(JoinRoom("R1", sweep))
  \/ /\ appends < MaxAppends
     /\ PullStep(SyncDice("R1", 1, <<3, 5>>, FALSE))
  \/ /\ appends < MaxAppends
     /\ PullStep(SyncPlayersEndpoint("R1", 1,
                                     [kind |-> "array", items |-> RosterOf(1, TRUE)],
                                     FALSE))
  \/ \E sessionId \in {1, 2} : PullStep(Poll("R1", sessionId, NoSince, FALSE))
  \/ /\ left = {}
     /\ appends < MaxAppends
     /\ PullStep(LeaveRoom("R1", 1, FALSE))

SpecActivity == InitRoomOf(1) /\ [][NextActivity]_vars

\* ================================================================ claims
\* The active PlayerRecords of a room, each named by its place in the roster.
ActiveRecords(room) ==
  UNION { { <<i, j>> : j \in {k \in 1..Len(room.players[i].list) :
                                  room.players[i].list[k].isActive} } :
          i \in 1..Len(room.players) }

\* C1: in every reachable state of a room, at most 4 PlayerRecords across
\* all sessions have isActive = true.
C1_AtMostFourActive ==
  \A r \in DOMAIN rooms : Cardinality(ActiveRecords(rooms[r])) <= 4

\* C2: when 5 distinct sessions of one room have each called updatePlayers
\* once, in sequence, each with exactly one active PlayerRecord, exactly 4
\* stored records are active and the record of the fifth session is stored
\* with isActive = false.
C2_FifthStoredInactive ==
  ("R1" \in DOMAIN rooms /\ Len(rooms["R1"].messages) = 5) =>
     LET room == rooms["R1"]
         fifth == room.messages[5].fromSession
     IN /\ Cardinality(ActiveRecords(room)) = 4
        /\ \E i \in 1..Len(room.players) :
              /\ room.players[i].sessionId = fifth
              /\ Len(room.players[i].list) = 1
              /\ ~room.players[i].list[1].isActive

\* What an append makes of a room's event log: the event is added at the
\* end, stamped with the time of the request, and the oldest entry makes
\* room for it when the log is full.
Appended(old, new) ==
  \/ /\ Len(old) < 50
     /\ Len(new) = Len(old) + 1
     /\ SubSeq(new, 1, Len(old)) = old
     /\ new[Len(new)].timestamp = now
  \/ /\ Len(old) = 50
     /\ Len(new) = 50
     /\ \A i \in 1..49 : new[i] = old[i + 1]
     /\ new[50].timestamp = now

\* C3: a room's event log holds at most 50 entries after any sequence of
\* sync-dice, sync-timer, sync-players and leave requests, and an append to
\* a full log drops the oldest entry, the other 50 keeping their order.
C3_BoundedLog ==
  /\ [](\A r \in DOMAIN rooms : Len(rooms[r].messages) <= 50)
  /\ [][\A r \in DOMAIN rooms \cap DOMAIN rooms' :
           IF appends' = appends + 1 /\ r = response'.roomId
           THEN Appended(rooms[r].messages, rooms'[r].messages)
           ELSE rooms'[r].messages = rooms[r].messages]_vars

\* An append has pushed the oldest entry of a full log out.
C3_Witness ==
  \E r \in DOMAIN rooms :
     /\ Len(rooms[r].messages) = 50
     /\ appends >= 2
     /\ rooms[r].messages[50].id[2] = appends
     /\ rooms[r].messages[1].id[2] = 0
     /\ rooms[r].messages[1].timestamp > 1

\* The events of a log newer than time t, oldest first.
RECURSIVE NewerThan(_, _)
NewerThan(log, t) ==
  IF log = <<>> THEN <<>>
  ELSE IF Head(log).timestamp > t
       THEN <<Head(log)>> \o NewerThan(Tail(log), t)
       ELSE NewerThan(Tail(log), t)

PollAnswered == response.op = "poll" /\ response.statusCode = 200

\* C4: for every watermark t, recentEvents(t) returns exactly the events of
\* the log with timestamp > t, in append order; a poll never changes the
\* log; and two polls with the same t and no append in between get the
\* same events.
C4_RecentEvents ==
  /\ []((PollAnswered /\ response.since # NoSince) =>
          response.recent =
            NewerThan(rooms[response.roomId].messages, DateOf(response.since)))
  /\ [][(response'.op = "poll" /\ response'.statusCode = 200
           /\ response'.roomId \in DOMAIN rooms) =>
          /\ rooms'[response'.roomId].messages = rooms[response'.roomId].messages
          /\ (PollAnswered /\ response.roomId = response'.roomId
               /\ response.since = response'.since) =>
                response'.recent = response.recent]_vars

\* A poll with a watermark inside the log: some events are returned, some
\* are held back.
C4_Witness ==
  /\ PollAnswered
  /\ response.since # NoSince
  /\ response.recent # <<>>
  /\ Len(response.recent) < Len(rooms[response.roomId].messages)
  /\ \E i \in 1..Len(rooms[response.roomId].messages) :
        rooms[response.roomId].messages[i].timestamp = DateOf(response.since)

\* C5: a poll response for session S never contains an event whose
\* fromSession is S, with or without a watermark.
C5_NoEcho ==
  PollAnswered =>
    \A i \in 1..Len(response.messages) :
       response.messages[i].fromSession # response.sessionId

\* A poll whose window held events of the caller and of its peer.
C5_Witness ==
  /\ PollAnswered
  /\ response.messages # <<>>
  /\ \E i \in 1..Len(response.recent) :
        response.recent[i].fromSession = response.sessionId

\* The poll response carries the dice roll held at position i of the log.
Delivers(log, i) ==
  \E j \in 1..Len(response.messages) :
     /\ response.messages[j].type = "dice-roll"
     /\ response.messages[j].values = log[i].values
     /\ response.messages[j].fromSession = log[i].fromSession
     /\ response.messages[j].id = log[i].id

\* The dice rolls of the log recorded by a session other than the poller.
RollsOfOthers(log) ==
  { i \in 1..Len(log) :
      log[i].type = "dice-roll" /\ log[i].fromSession # response.sessionId }

\* C6 as stated: a dice roll of S1 still in the log is returned to every
\* other session that polls without a watermark or with a watermark older
\* than the roll.
C6_RollReachesPeer ==
  PollAnswered =>
    LET log == rooms[response.roomId].messages
    IN \A i \in RollsOfOthers(log) :
          (response.since = NoSince \/ log[i].timestamp > DateOf(response.since))
            => Delivers(log, i)

\* C6: a dice roll of S1 still in the log is returned to every other
\* session that polls with a watermark older than the roll; a poll without
\* a watermark returns it while it is among the last 10 events of the log.
C6_RollReachesPeerInWindow ==
  PollAnswered =>
    LET log == rooms[response.roomId].messages
    IN \A i \in RollsOfOthers(log) :
          (IF response.since = NoSince
           THEN i > Len(log) - RecentDefault
           ELSE log[i].timestamp > DateOf(response.since))
            => Delivers(log, i)

\* A poll without a watermark on a log of more than 10 events that hands
\* the peer's latest roll to the poller.
C6_Witness ==
  /\ PollAnswered
  /\ response.since = NoSince
  /\ LET log == rooms[response.roomId].messages
     IN /\ Len(log) > RecentDefault
        /\ \E i \in RollsOfOthers(log) :
              i > Len(log) - RecentDefault /\ Delivers(log, i)

\* The sessions that joined room r, have not left it, and were last seen
\* no more than 5 minutes before time t.
LiveMembers(r, t) ==
  {s \in DOMAIN joined :
     joined[s] = r /\ s \notin left /\ seen[s] >= t - FiveMinutes}

\* The sessions that joined room r, have not left it, and were last seen
\* more than 5 minutes before time t.
StaleMembers(r, t) ==
  {s \in DOMAIN joined :
     joined[s] = r /\ s \notin left /\ seen[s] < t - FiveMinutes}

\* A response that reports getParticipantCount() of its room.
CountReported ==
  /\ response.op \in {"create-room", "join-room", "room-info"}
  /\ response.statusCode = 200

\* C7: the count a handler reports is the number of sessions that joined
\* the room, have not left and were last seen within the 5 minutes before
\* the call; and the call leaves no participant with an older lastSeen.
C7_LiveCount ==
  CountReported =>
    /\ response.participantCount =
         Cardinality(LiveMembers(response.roomId, response.at))
    /\ \A s \in DOMAIN rooms[response.roomId].participants :
          rooms[response.roomId].participants[s].lastSeen
             >= response.at - FiveMinutes

\* A count taken while one member is live and another has gone stale and
\* is purged by the call.
C7_Witness ==
  /\ CountReported
  /\ response.participantCount = 1
  /\ \E s \in StaleMembers(response.roomId, response.at) :
        s \notin DOMAIN rooms[response.roomId].participants

\* The room has participants and all of them are stale at time t.
OnlyStale(room, t) ==
  /\ DOMAIN room.participants # {}
  /\ StaleParticipants(room, t) = DOMAIN room.participants

\* C8: a room whose only participants are stale has a live count of 0 and
\* is empty, and a request that sweeps the registry removes it (the code
\* may be taken again by a create-room of the same request).
C8_StaleRoomSwept ==
  /\ [](\A r \in DOMAIN rooms :
          OnlyStale(rooms[r], now) =>
            /\ participantCount(rooms[r], now) = 0
            /\ isEmpty(rooms[r], now)
            /\ r \notin DOMAIN cleanupRooms(rooms, now))
  /\ [][(response'.swept /\ response'.at = now /\ now' = now) =>
          \A r \in DOMAIN rooms :
             OnlyStale(rooms[r], now) =>
               \/ r \notin DOMAIN rooms'
               \/ /\ response'.op = "create-room"
                  /\ response'.roomId = r
                  /\ DOMAIN rooms'[r].participants = {response'.sessionId}]_vars

\* A sweep has emptied the registry of a room whose member never left.
C8_Witness ==
  /\ response.op = "health"
  /\ response.swept
  /\ response.rooms = 0
  /\ rooms = EmptyMap
  /\ appends = 0
  /\ StaleMembers("R1", response.at) # {}

ParticipantsOf(R, r) == IF r \in DOMAIN R THEN DOMAIN R[r].participants ELSE {}

\* This step is a leave-room request for room r by a session that is not
\* one of its participants.
LeaveOfAbsent(r) ==
  /\ now' = now
  /\ response'.op = "leave-room"
  /\ response'.at = now
  /\ response'.roomId = r
  /\ response'.sessionId \notin DOMAIN rooms[r].participants

\* C9 as stated: leaving with a sessionId that is not a participant
\* answers without an error and leaves the number of participants of the
\* room unchanged, whatever the room holds.
C9_LeaveAbsentKeepsSize ==
  [][\A r \in DOMAIN rooms :
       LeaveOfAbsent(r) =>
         /\ response'.statusCode = 200
         /\ Cardinality(ParticipantsOf(rooms', r))
              = Cardinality(ParticipantsOf(rooms, r))]_vars

\* C9: leaving with a sessionId that is not a participant answers without
\* an error; removeParticipant itself removes nobody, and the request
\* removes exactly the stale participants of the room (and the room with
\* them when no live participant is left), the room not being expired.
C9_LeaveAbsentKeepsLive ==
  [][\A r \in DOMAIN rooms :
       (LeaveOfAbsent(r) /\ ~isExpired(rooms[r], now)) =>
         /\ response'.statusCode = 200
         /\ removeParticipant(rooms[r], response'.sessionId, now).participants
              = rooms[r].participants
         /\ ParticipantsOf(rooms', r)
              = DOMAIN rooms[r].participants \ StaleParticipants(rooms[r], now)
         /\ r \in DOMAIN rooms' <=> ParticipantsOf(rooms', r) # {}
         /\ \A s \in ParticipantsOf(rooms', r) :
               rooms'[r].participants[s] = rooms[r].participants[s]]_vars

\* A leave-room by a session that never joined, in a room that held a
\* stale member beside a live one: the live one is still there.
C9_Witness ==
  /\ response.op = "leave-room"
  /\ response.sessionId \notin DOMAIN joined
  /\ response.roomId \in DOMAIN rooms
  /\ LiveMembers(response.roomId, response.at)
       = DOMAIN rooms[response.roomId].participants
  /\ LiveMembers(response.roomId, response.at) # {}
  /\ StaleMembers(response.roomId, response.at) # {}

\* The PlayerRecord list stored for session s, empty when there is none.
ListOf(players, s) == IF PlayersHas(players, s) THEN PlayersGet(players, s) ELSE <<>>

OwnersOf(players) == {players[i].sessionId : i \in 1..Len(players)}

\* This step is an answered sync-players request on room r.
PlayersSynced(r) ==
  /\ now' = now
  /\ appends' = appends + 1
  /\ response'.op = "sync-players"
  /\ response'.statusCode = 200
  /\ response'.roomId = r
  /\ r \in DOMAIN rooms'

\* C10 as stated: a roster submission of session A leaves the list of
\* every other session B as it was.
C10_OthersUntouched ==
  [][\A r \in DOMAIN rooms :
       PlayersSynced(r) =>
         \A B \in (OwnersOf(rooms[r].players) \cup OwnersOf(rooms'[r].players))
                    \ {response'.sessionId} :
            ListOf(rooms'[r].players, B) = ListOf(rooms[r].players, B)]_vars

\* C10: updatePlayerData(A, list) leaves the list of every other session B
\* as it was, and so does the request that carries it unless B is a stale
\* participant: then the count taken for the response removes B's list.
\* No record of B is added or modified.
C10_OthersUntouchedUnlessStale ==
  /\ [](\A r \in DOMAIN rooms : \A A \in 0..MaxSessions : \A p \in ArrayInputs :
          \A B \in OwnersOf(rooms[r].players) \ {A} :
             ListOf(updatePlayerData(rooms[r], A, p, now).players, B)
               = ListOf(rooms[r].players, B))
  /\ [][\A r \in DOMAIN rooms :
          PlayersSynced(r) =>
            \A B \in (OwnersOf(rooms[r].players) \cup OwnersOf(rooms'[r].players))
                       \ {response'.sessionId} :
               ListOf(rooms'[r].players, B) =
                 IF B \in StaleParticipants(rooms[r], now)
                 THEN <<>>
                 ELSE ListOf(rooms[r].players, B)]_vars

\* A roster submission has been stored beside the roster of another session.
C10_Witness ==
  /\ response.op = "sync-players"
  /\ response.statusCode = 200
  /\ response.roomId \in DOMAIN rooms
  /\ response.sessionId \in OwnersOf(rooms[response.roomId].players)
  /\ OwnersOf(rooms[response.roomId].players) \ {response.sessionId} # {}

\* C11: in every reachable state each key of a room's players map is a key
\* of its participants map.
C11_PlayersOfParticipants ==
  \A r \in DOMAIN rooms :
     OwnersOf(rooms[r].players) \subseteq DOMAIN rooms[r].participants

\* This step answers a create-room request of the polling backend.
PullCreated ==
  /\ response'.op = "create-room"
  /\ nextSession' = nextSession + 1

\* This step constructs a Room object in the socket backend.
PushCreated ==
  /\ reply'.event \in {"create-room", "api-rooms"}
  /\ nextObject' = nextObject + 1

\* C12: createRoom registers the new room under a code that is not in use
\* at that moment (in the polling backend: after the sweep the request may
\* run first), and every room registered at that moment stays registered
\* as it is.
C12_FreshCode ==
  [][/\ PullCreated =>
          LET R0 == MaybeCleanup(rooms, now, response'.swept)
          IN /\ response'.roomId \notin DOMAIN R0
             /\ \A q \in DOMAIN R0 : q \in DOMAIN rooms' /\ rooms'[q] = R0[q]
             /\ DOMAIN rooms' = DOMAIN R0 \cup {response'.roomId}
     /\ PushCreated =>
          /\ reply'.roomId \notin DOMAIN ioRooms
          /\ \A q \in DOMAIN ioRooms :
                /\ q \in DOMAIN ioRooms'
                /\ ioRooms'[q] = ioRooms[q]
                /\ heap'[ioRooms'[q]] = heap[ioRooms[q]]
          /\ DOMAIN ioRooms' = DOMAIN ioRooms \cup {reply'.roomId}]_vars

\* A second room has been created while the first one is registered.
C12_Witness ==
  /\ response.op = "create-room"
  /\ response.sessionId = 2
  /\ DOMAIN rooms = Codes

\* No participant of the room was seen within the 5 minutes before t.
NoLiveParticipant(room, t) ==
  \A s \in DOMAIN room.participants : room.participants[s].lastSeen < t - FiveMinutes

\* The rooms of the polling registry a sweep at time t has to delete.
Reclaimable(R, t) ==
  {r \in DOMAIN R : NoLiveParticipant(R[r], t) \/ R[r].lastActivity < t - OneHour}

\* The polling backend: cleanupRooms deletes exactly the reclaimable rooms,
\* as a function of the registry and in every health request that sweeps.
C13_PullSweep ==
  /\ [](DOMAIN cleanupRooms(rooms, now) = DOMAIN rooms \ Reclaimable(rooms, now))
  /\ [][(response'.op = "health" /\ response'.swept /\ response'.at = now /\ now' = now)
          => DOMAIN rooms' = DOMAIN rooms \ Reclaimable(rooms, now)]_vars

\* The last time a room of the socket backend was touched: its creation or
\* the latest join of a socket still in it.
ioLastActivity(room) ==
  LET times == {room.createdAt}
                 \cup {room.participants[i].joinedAt : i \in 1..Len(room.participants)}
  IN CHOOSE t \in times : \A u \in times : u <= t

\* The socket backend: the interval sweep deletes a room if and only if
\* it has no participant or was last touched more than an hour ago.
C13_PushSweep ==
  [][(reply'.event = "cleanup" /\ now' = now) =>
       \A q \in DOMAIN ioRooms :
          q \notin DOMAIN ioRooms' <=>
            \/ ioIsEmpty(heap[ioRooms[q]])
            \/ ioLastActivity(heap[ioRooms[q]]) < now - OneHour]_vars

\* C13: a sweep deletes a room if and only if the room has no live
\* participant or its last activity is more than 1 hour old, in the polling
\* backend (cleanupRooms) and in the socket backend (cleanupEmptyRooms).
C13_SweepIff == C13_PullSweep /\ C13_PushSweep

\* This step is a leave-room request of the polling backend by the last
\* participant of room r.
PullLastLeaves(r) ==
  /\ now' = now
  /\ appends' = appends + 1
  /\ response'.op = "leave-room"
  /\ response'.roomId = r
  /\ DOMAIN rooms[r].participants = {response'.sessionId}

\* In this step the socket reply'.socket, the last participant of the room
\* registered under code q, leaves it by the event `event`.
PushLastLeaves(q, event) ==
  /\ events' = events + 1
  /\ reply'.event = event
  /\ (event = "join-room" => reply'.success)
  /\ reply'.socket \in DOMAIN currentRoom
  /\ currentRoom[reply'.socket] = ioRooms[q]
  /\ \A i \in 1..Len(heap[ioRooms[q]].participants) :
        heap[ioRooms[q]].participants[i].socketId = reply'.socket
  /\ (event = "join-room" => reply'.roomId # q)

\* The polling backend: the room the last participant leaves is removed
\* from the registry in the same step.
C15_PullLeave ==
  [][\A r \in DOMAIN rooms : PullLastLeaves(r) => r \notin DOMAIN rooms']_vars

\* The socket backend: the room the last participant leaves by disconnecting
\* is removed from the registry in the same step.
C15_PushDisconnect ==
  [][\A q \in DOMAIN ioRooms :
        PushLastLeaves(q, "disconnect") => q \notin DOMAIN ioRooms']_vars

\* C15: when the last participant of a room explicitly leaves, the room is
\* removed from the registry in the same step: by the leave-room request of
\* the polling backend, and by the leave-room event, the room switch of
\* join-room and the disconnect of the socket backend.
C15_LastLeaveRemovesRoom ==
  /\ C15_PullLeave
  /\ C15_PushDisconnect
  /\ [][\A q \in DOMAIN ioRooms :
          (PushLastLeaves(q, "leave-room") \/ PushLastLeaves(q, "join-room"))
             => q \notin DOMAIN ioRooms']_vars

\* Room code r is registered in the polling backend for a room a sweep has
\* to delete.
PullReclaimable(r) == r \in DOMAIN rooms /\ r \in Reclaimable(rooms, now)

\* Room code q is registered in the socket backend for a room that is empty
\* or older than the 24 hours cleanupEmptyRooms allows.
PushReclaimable(q) ==
  /\ q \in DOMAIN ioRooms
  /\ ioIsEmpty(heap[ioRooms[q]]) \/ now - heap[ioRooms[q]].createdAt > OneDay

SessionOps == {"sync-dice", "sync-timer", "sync-players", "poll", "leave-room"}

\* This step answers a request on room r that names a session which is not
\* a participant of r.
NamesAbsent(r) ==
  /\ now' = now
  /\ response'.at = now
  /\ response'.op \in SessionOps
  /\ response'.roomId = r
  /\ response'.sessionId \notin DOMAIN rooms[r].participants

\* The fields of a room an absent session must not touch.
Guarded(room) ==
  <<room.currentDiceValues, room.timerState, room.players, room.messages,
    room.lastActivity>>

\* C16: a request that names a session which is not a participant of the
\* room reports a failure, or leaves the dice, the timer, the players, the
\* event log and lastActivity of the room as they were.
C16_AbsentIsNoOp ==
  [][\A r \in DOMAIN rooms :
       NamesAbsent(r) =>
         \/ ~response'.success
         \/ /\ r \in DOMAIN rooms'
            /\ Guarded(rooms'[r]) = Guarded(rooms[r])]_vars

\* This step answers a health or a room-info request.
Queried ==
  /\ now' = now
  /\ response'.at = now
  /\ response'.op \in {"health", "room-info"}

\* C17 as stated: a health or room-info request changes nothing in the
\* registry or in any room.
C17_QueriesChangeNothing == [][Queried => rooms' = rooms]_vars

\* Room `new` is room `old` less some participants that were stale at time
\* t and less their player arrays; everything else is as it was.
SameButPurged(old, new, t) ==
  LET removed == DOMAIN old.participants \ DOMAIN new.participants
  IN /\ new.id = old.id
     /\ new.lastActivity = old.lastActivity
     /\ new.createdAt = old.createdAt
     /\ new.messages = old.messages
     /\ new.currentDiceValues = old.currentDiceValues
     /\ new.timerState = old.timerState
     /\ DOMAIN new.participants \subseteq DOMAIN old.participants
     /\ \A s \in DOMAIN new.participants : new.participants[s] = old.participants[s]
     /\ \A s \in removed : old.participants[s].lastSeen < t - FiveMinutes
     /\ new.players = PlayersDeleteAll(old.players, removed)

\* C17: a health or room-info request never changes lastActivity, the
\* event log, the dice or the timer of a room and adds nothing; it may
\* purge stale participants with their player arrays, and when its sweep
\* runs it may delete rooms that have no live participant or are expired.
C17_QueriesOnlyPurge ==
  [][Queried =>
       /\ DOMAIN rooms' \subseteq DOMAIN rooms
       /\ \A r \in DOMAIN rooms :
             IF r \in DOMAIN rooms'
             THEN SameButPurged(rooms[r], rooms'[r], now)
             ELSE response'.swept /\ r \in Reclaimable(rooms, now)
       /\ (response'.op = "health" /\ ~response'.swept) => rooms' = rooms]_vars

\* A room-info request has purged a stale member and kept the room.
C17_Witness ==
  /\ response.op = "room-info"
  /\ response.statusCode = 200
  /\ response.roomId \in DOMAIN rooms
  /\ rooms[response.roomId].lastActivity < response.at
  /\ \E s \in StaleMembers(response.roomId, response.at) :
        s \notin DOMAIN rooms[response.roomId].participants

\* The backend answers the /poll request wire[i] in this step.
PollServed(i) ==
  /\ i \in Underway("poll", "request")
  /\ wire' = Append(Without(wire, i),
                    [kind |-> "poll", stage |-> "response", body |-> response'])

\* The events of peers that are in the log of R1 after this step and that
\* the client has neither been handed before nor is sent by this answer.
SkippedBy(sessionId) ==
  {k \in 1..Len(rooms'["R1"].messages) :
     /\ rooms'["R1"].messages[k].fromSession # sessionId
     /\ rooms'["R1"].messages[k].id \notin handled
     /\ \A j \in 1..Len(response'.messages) :
           response'.messages[j].id # rooms'["R1"].messages[k].id}

\* C18: when a participant polls with the watermark its previous poll
\* returned, and no answer to it is still under way, the answer carries
\* every event of its peers that it has not been handed yet: no event of a
\* peer is skipped between two consecutive polls.
C18_NoEventSkipped ==
  [][\A i \in DOMAIN wire :
        (/\ PollServed(i)
         /\ wire[i].since # NoSince
         /\ Underway("poll", "response") = {}
         /\ response'.success)
        => SkippedBy(wire[i].sessionId) = {}]_vars

\* The sockets the last step emitted to, and the sockets held as
\* participants by a room.
Recipients(out) == {out[i].to : i \in DOMAIN out}
SocketsOf(room) == {room.participants[k].socketId : k \in DOMAIN room.participants}

\* The socket backend handled this event of a socket that is in a room.
Mutated(event) ==
  /\ events' = events + 1
  /\ reply'.event = event
  /\ currentRoom[reply'.socket] # NoRoom

PollSent ==
  /\ Len(wire') = Len(wire) + 1
  /\ wire'[Len(wire')].kind = "poll"
  /\ wire'[Len(wire')].stage = "request"

\* The client takes the answer to one of its polls in this step.
PollTaken == \E i \in Underway("poll", "response") : wire' = Without(wire, i)

DataCallbacks == {"onDiceReceived", "onTimerSync", "onPlayersReceived", "onRoomUpdate"}

\* C20: once leaveRoom or disconnect has been called on the client, it
\* sends no further /poll request, and taking the answer to an earlier
\* poll fires none of onDiceReceived, onTimerSync, onPlayersReceived and
\* onRoomUpdate.
C20_QuietAfterLeave ==
  [][leaveCalled =>
       /\ ~PollSent
       /\ PollTaken => \A k \in DOMAIN fired' : fired'[k] \notin DataCallbacks]_vars

\* C21: the cadence of the client's poll requests follows pollDelay: once
\* failed polls have raised pollDelay above its base, a poll request is
\* sent no sooner than pollDelay after the tick of the interval before it.
C21_CadenceFollowsDelay ==
  [][(PollSent /\ client.pollDelay > PollDelay)
       => now - (client.pollDue - client.pollEvery) >= client.pollDelay]_vars

\* The client takes, in this step, a successful answer to one of its polls.
SuccessTaken ==
  \E i \in Underway("poll", "response") :
    /\ wire' = Without(wire, i)
    /\ wire[i].body.statusCode = 200
    /\ wire[i].body.success

\* C22: a successful poll leaves pollDelay at its base value of 2 s,
\* however many polls failed before it.
C22_SuccessResetsDelay ==
  [][SuccessTaken => client'.pollDelay = PollDelay]_vars

\* The socket client meets a failure in this step, other than a
\* disconnect by the server: attemptReconnect is called.
ReconnectAsked ==
  /\ ioClient'.failures = ioClient.failures + 1
  /\ ~ \E k \in DOMAIN ioClient.sockets :
          ioClient.sockets[k] = "open" /\ ioClient'.sockets[k] = "closed"

\* One of the client's sockets connects in this step.
Connected ==
  \E k \in DOMAIN ioClient.sockets :
     ioClient.sockets[k] = "opening" /\ ioClient'.sockets[k] = "open"

\* C23: reconnectAttempts never exceeds maxReconnectAttempts = 5 and no
\* more than 5 connects are scheduled in a row; the k-th attempt is
\* scheduled k seconds ahead; a failure after the fifth reports offline
\* 'Reconnect fehlgeschlagen' and schedules nothing; a successful connect
\* resets the counter to 0.
C23_ReconnectCapped ==
  [][/\ ioClient'.reconnectAttempts <= MaxReconnectAttempts
     /\ ioClient'.scheduled <= MaxReconnectAttempts
     /\ (ReconnectAsked /\ ioClient.reconnectAttempts < MaxReconnectAttempts) =>
          /\ ioClient'.reconnectAttempts = ioClient.reconnectAttempts + 1
          /\ ioClient'.timers =
               Append(ioClient.timers,
                      now + ioClient'.reconnectAttempts * ReconnectDelay)
     /\ (ReconnectAsked /\ ioClient.reconnectAttempts >= MaxReconnectAttempts) =>
          /\ ioClient'.status = <<"offline", "Reconnect fehlgeschlagen">>
          /\ ioClient'.timers = ioClient.timers
          /\ Len(ioClient'.sockets) = Len(ioClient.sockets)
          /\ ioClient'.reconnectAttempts = ioClient.reconnectAttempts
     /\ Connected => ioClient'.reconnectAttempts = 0]_vars

\* Five attempts in a row were scheduled and the next failure was reported
\* as final.
C23_Witness ==
  /\ ioClient.status = <<"offline", "Reconnect fehlgeschlagen">>
  /\ ioClient.scheduled = MaxReconnectAttempts
  /\ ioClient.reconnectAttempts = MaxReconnectAttempts

\* C24: no request and no event raises an error past its handler: the
\* last interaction of either backend ended in a result, not in an
\* exception that left the handler.
C24_NothingThrown ==
  /\ "thrown" \notin DOMAIN response
  /\ "thrown" \notin DOMAIN reply

\* C25: a poll without a watermark gets the last 10 events of the log, or
\* the whole log when it holds fewer, in append order.
C25_DefaultWindow ==
  (PollAnswered /\ response.since = NoSince) =>
     LET log == rooms[response.roomId].messages
         k == Min(Len(log), RecentDefault)
     IN /\ Len(response.recent) = k
        /\ \A i \in 1..k : response.recent[i] = log[Len(log) - k + i]

\* A poll without a watermark on a log of more than 10 events: it got 10,
\* the newest last.
C25_Witness ==
  /\ PollAnswered
  /\ response.since = NoSince
  /\ Len(rooms[response.roomId].messages) > RecentDefault
  /\ Len(response.recent) = RecentDefault
  /\ response.recent[RecentDefault] =
       rooms[response.roomId].messages[Len(rooms[response.roomId].messages)]

\* The active records that sessions other than s own in a room.
ActiveOfOthers(room, s) == CountActive(FlattenPlayers(PlayersDelete(room.players, s)))

\* Session s had, before this step, an active record of that name.
WasActive(room, s, name) ==
  \E j \in 1..Len(ListOf(room.players, s)) :
     /\ ListOf(room.players, s)[j].name = name
     /\ ListOf(room.players, s)[j].isActive

\* C26: a record that a roster submission of session S leaves stored as
\* active either met fewer than 4 active records of other sessions, or
\* was stored as active for S before the submission.
C26_ActiveOnlyIfAllowed ==
  [][PlayersSynced("R1") =>
       LET S == response'.sessionId
           stored == ListOf(rooms'["R1"].players, S)
       IN \A k \in 1..Len(stored) :
             stored[k].isActive =>
                \/ ActiveOfOthers(rooms["R1"], S) < ActiveLimit
                \/ WasActive(rooms["R1"], S, stored[k].name)]_vars

\* The stored list holds one record per submitted record, in its order.
RecordsOf(stored, items) ==
  /\ Len(stored) = Len(items)
  /\ \A i \in 1..Len(items) : stored[i].name = items[i].name

\* C27: after a roster submission of session S, by updatePlayerData and by
\* the /sync-players handler alike, the records stored for S are those of
\* the submitted list, one for one and in order; nothing of an earlier
\* submission remains and an empty list leaves S without records.
C27_RosterReplaced ==
  \A r \in DOMAIN rooms : \A S \in 1..MaxSessions : \A p \in ArrayInputs :
     /\ RecordsOf(ListOf(updatePlayerData(rooms[r], S, p, now).players, S), p.items)
     /\ RecordsOf(ListOf(ForEachPlayer(updateParticipant(rooms[r], S, now),
                                       S, p.items, now).players, S),
                  p.items)

\* The timerState ts carries every field of the call's input as given, is
\* marked with the caller, and has no field besides those and `extra`.
ReplacedBy(ts, input, by, extra) ==
  /\ DOMAIN ts = DOMAIN input \cup {"lastUpdatedBy"} \cup extra
  /\ \A k \in DOMAIN input : ts[k] = input[k]
  /\ ts.lastUpdatedBy = by

\* The timerState a timer call of this step leaves satisfies ReplacedBy:
\* /sync-timer of a session of R1, sync-timer of a socket that is in a room.
TimerCalls(extra) ==
  /\ \A sessionId \in 1..2, timerState \in TimerInputs :
        PullStep(SyncTimer("R1", sessionId, timerState, FALSE)) =>
           ReplacedBy(rooms'["R1"].timerState, timerState, sessionId, extra)
  /\ \A socketId \in DOMAIN currentRoom, timerData \in TimerInputs :
        (PushEvent(OnSyncTimer(socketId, timerData)) /\ currentRoom[socketId] # NoRoom) =>
           ReplacedBy(heap'[currentRoom[socketId]].timerState, timerData, socketId, extra)

\* C28 as stated: after a sync-timer call the timerState consists of
\* exactly the fields of that call plus lastUpdatedBy.
C28_TimerReplaced == [][TimerCalls({})]_vars

\* C28: after a sync-timer call the timerState consists of exactly the
\* fields of that call plus lastUpdatedBy = the caller and lastUpdatedAt =
\* the time of the call; no field of an earlier timerState survives.
C28_TimerReplacedAndStamped ==
  /\ [][TimerCalls({"lastUpdatedAt"})]_vars
  /\ [][\A sessionId \in 1..2, timerState \in TimerInputs :
          PullStep(SyncTimer("R1", sessionId, timerState, FALSE)) =>
             rooms'["R1"].timerState.lastUpdatedAt = now]_vars

\* A call with two fields has replaced a timerState of more fields: the
\* duration the room had before is gone.
C28_Witness ==
  /\ "R1" \in DOMAIN rooms
  /\ response.op = "sync-timer"
  /\ response.statusCode = 200
  /\ "duration" \notin DOMAIN rooms["R1"].timerState
  /\ rooms["R1"].timerState.lastUpdatedBy = response.sessionId
  /\ rooms["R1"].timerState.remainingTime = 30

\* ---------------------------------------------------------------- C29
\* The indices of the events of one type in a room's log, and the last of them.
OfType(room, type) == {i \in 1..Len(room.messages) : room.messages[i].type = type}

Latest(S) == CHOOSE i \in S : \A j \in S : j <= i

\* The value of the most recent dice roll of a room, null while no session
\* has rolled; the most recent timer update, the constructor's timer while
\* none was made.
LastRoll(room) ==
  IF OfType(room, "dice-roll") = {} THEN NoDice
  ELSE room.messages[Latest(OfType(room, "dice-roll"))].values

LastTimer(room) ==
  IF OfType(room, "timer-sync") = {} THEN NewRoom(room.id, 0).timerState
  ELSE room.messages[Latest(OfType(room, "timer-sync"))].timerState

\* A step that answers a join with success.
JoinAnswered ==
  /\ nextSession' = nextSession + 1
  /\ response'.op = "join-room"
  /\ response'.success

\* C29: a join returns a snapshot equal to the room's state at that moment:
\* currentDiceValues is the value of the most recent dice roll in the room
\* (null if none), timerState is the most recent timer update, and players,
\* where the handler knows players, is the roster of all sessions the room
\* holds once the join is done.
C29_JoinSnapshot ==
  [][ JoinAnswered =>
        LET room == rooms'[response'.roomId]
        IN /\ response'.currentDiceValues = room.currentDiceValues
           /\ response'.currentDiceValues = LastRoll(room)
           /\ response'.timerState = room.timerState
           /\ response'.timerState = LastTimer(room)
           /\ "players" \in DOMAIN response' =>
                 /\ response'.players = getPlayerData(room)
                 /\ \A i \in 1..Len(room.players) :
                       \A k \in 1..Len(room.players[i].list) :
                          \E n \in 1..Len(response'.players) :
                             response'.players[n] = room.players[i].list[k] ]_vars

\* A join was answered with a roll, a timer update and a player in it.
C29_Witness ==
  /\ response.op = "join-room"
  /\ response.success
  /\ "players" \in DOMAIN response
  /\ response.currentDiceValues /= NoDice
  /\ "lastUpdatedBy" \in DOMAIN response.timerState
  /\ Len(response.players) > 0

\* ---------------------------------------------------------------- C30
\* The socket backend let a socket into a room in this step.
Joined ==
  /\ events' = events + 1
  /\ reply'.event = "join-room"
  /\ reply'.success

\* The positions of one event among the emissions of a step.
Emissions(out, event) == {i \in DOMAIN out : out[i].event = event}

\* C30: when a socket joins a room, each other participant of that room is
\* sent participant-joined (once for each participant record the room holds
\* of it), carrying the participant count of the room after the join, and
\* the joining socket is sent no participant-joined.
C30_JoinAnnounced ==
  [][ Joined =>
        LET room == heap'[ioRooms'[reply'.roomId]]
            sent == Emissions(emitted', "participant-joined")
        IN /\ currentRoom'[reply'.socket] = ioRooms'[reply'.roomId]
           /\ reply'.socket \in SocketsOf(room)
           /\ {emitted'[i].to : i \in sent} = SocketsOf(room) \ {reply'.socket}
           /\ \A socketId \in SocketsOf(room) \ {reply'.socket} :
                 Cardinality({i \in sent : emitted'[i].to = socketId})
                   = Cardinality({k \in DOMAIN room.participants :
                                    room.participants[k].socketId = socketId})
           /\ \A i \in sent :
                 /\ emitted'[i].to # reply'.socket
                 /\ emitted'[i].data.participantCount = Len(room.participants)
                 /\ emitted'[i].data.participantCount = reply'.participantCount ]_vars

\* A third socket has joined a room of two, and both were told of three.
C30_Witness ==
  /\ events > 0
  /\ reply.event = "join-room"
  /\ reply.success
  /\ Cardinality({emitted[i].to : i \in Emissions(emitted, "participant-joined")}) = 2
  /\ \A i \in Emissions(emitted, "participant-joined") :
        /\ emitted[i].to # reply.socket
        /\ emitted[i].data.participantCount = 3

\* ---------------------------------------------------------------- C31
\* The socket backend handled the disconnect of a socket that was in a room.
Disconnected ==
  /\ events' = events + 1
  /\ reply'.event = "disconnect"
  /\ reply'.socket \in DOMAIN currentRoom
  /\ currentRoom[reply'.socket] # NoRoom

\* The participant records a room keeps when a socket is taken out of it.
Remaining(room, socketId) ==
  SelectSeq(room.participants, LAMBDA p : p.socketId # socketId)

\* C31: when a socket disconnects it is removed from its room, every
\* remaining participant of that room is sent participant-left carrying the
\* count after the removal and nothing else is sent, and a room left without
\* participants is out of the registry after the same step.
C31_DisconnectLeaves ==
  [][ Disconnected =>
        LET socketId == reply'.socket
            cur == currentRoom[socketId]
            remaining == Remaining(heap[cur], socketId)
        IN /\ socketId \notin DOMAIN currentRoom'
           /\ cur \in DOMAIN heap' =>
                 /\ heap'[cur].participants = remaining
                 /\ socketId \notin SocketsOf(heap'[cur])
           /\ Len(emitted') = Len(remaining)
           /\ \A i \in DOMAIN emitted' :
                 /\ emitted'[i].to = remaining[i].socketId
                 /\ emitted'[i].event = "participant-left"
                 /\ emitted'[i].data.participantCount = Len(remaining)
           /\ remaining = <<>> =>
                 /\ cur \notin RangeOf(ioRooms')
                 /\ heap[cur].id \notin DOMAIN ioRooms' ]_vars

\* A socket has disconnected from a room of two and the other was told of one.
C31_Witness ==
  /\ events > 0
  /\ reply.event = "disconnect"
  /\ Len(emitted) = 1
  /\ emitted[1].event = "participant-left"
  /\ emitted[1].data.participantCount = 1
  /\ emitted[1].to \in DOMAIN currentRoom
  /\ currentRoom[emitted[1].to] # NoRoom

\* ---------------------------------------------------------------- C32
\* The code names no room, or a room whose lastActivity is more than an hour old.
Missing(roomId) == roomId \notin DOMAIN rooms \/ isExpired(rooms[roomId], now)

\* C32: join, sync-dice, sync-timer, sync-players and poll on a code that
\* is unknown, or whose room is expired, are answered with the room-not-found
\* failure, create no room and leave every existing room unchanged.
C32_MissingRoomRefused ==
  [][ \A op \in RoomOps, roomId \in Codes, sweep \in BOOLEAN :
        (Missing(roomId) /\ PullStep(Request(op, roomId, sweep))) =>
           /\ response'.statusCode = 404
           /\ ~response'.success
           /\ DOMAIN rooms' \subseteq DOMAIN rooms
           /\ \A r \in DOMAIN rooms : r \in DOMAIN rooms' /\ rooms'[r] = rooms[r] ]_vars

\* ---------------------------------------------------------------- C33
\* The rooms of the registry that hold a participant record of a socket.
RoomsHolding(socketId) ==
  {obj \in RangeOf(ioRooms) : socketId \in SocketsOf(heap[obj])}

\* C33: each socket id is a participant of at most one room of the
\* registry, the one its connection holds as currentRoom, and of no room
\* once it has disconnected.
C33_OneRoomPerSocket ==
  server = "push" =>
    \A socketId \in 1..(nextSocket - 1) :
       IF socketId \in DOMAIN currentRoom
       THEN RoomsHolding(socketId) \subseteq {currentRoom[socketId]}
       ELSE RoomsHolding(socketId) = {}

\* ---------------------------------------------------------------- C34
\* The socket backend holds the client's current socket in the room the
\* client names.
HeldInRoom ==
  LET id == ioClient.ids[ioClient.socket]
  IN /\ id \in DOMAIN currentRoom
     /\ currentRoom[id] # NoRoom
     /\ heap[currentRoom[id]].id = ioClient.currentRoomId
     /\ id \in SocketsOf(heap[currentRoom[id]])

\* C34: whenever the socket client is connected and has currentRoomId set,
\* the server holds its current socket as a participant of that room, also
\* after a disconnect followed by a successful reconnect.
C34_ConnectedMeansHeld ==
  (server = "push" /\ ioClient.isConnected /\ ioClient.currentRoomId # Null /\ SocketOpen)
     => HeldInRoom

\* ---------------------------------------------------------------- C35
\* C35: the polling client hands each event to handleMessage at most once:
\* no answer to a poll that the client takes carries an event it has been
\* handed before, whichever way timer ticks and answers interleave.
C35_AtMostOnce ==
  [][ \A i \in Underway("poll", "response") :
        (wire' = Without(wire, i) /\ wire[i].body.success) =>
           \A k \in 1..Len(wire[i].body.messages) :
              wire[i].body.messages[k].id \notin handled ]_vars

\* ---------------------------------------------------------------- C36
\* C36: the first poll the polling client sends after createRoom or
\* joinRoom has returned carries since = null, for any order of leaveRoom,
\* disconnect, joinRoom and late answers to polls.
C36_FirstPollFromScratch ==
  [][ (PollSent /\ client.fresh) => wire'[Len(wire')].since = NoSince ]_vars

\* ---------------------------------------------------------------- C37
\* The polling timers that are set and not cleared.
LiveIntervals == (IF client.pollInterval THEN 1 ELSE 0) + client.stray

\* C37: the polling client has at most one polling timer active at any
\* time, after any sequence of createRoom, joinRoom, leaveRoom and
\* disconnect calls, joinRoom while already in a room included.
C37_OnePollingTimer == LiveIntervals <= 1

\* The client has joined a room as its second session without having left
\* the first, and polls.
C37_Witness ==
  /\ client.sessionId = 2
  /\ ~leaveCalled
  /\ client.pollInterval
  /\ client.pollDue = now + client.pollDelay
  /\ LiveIntervals = 1

\* ---------------------------------------------------------------- C38
\* C38: a session that is answered a poll with success is a participant of
\* the room when the answer is built and is counted in its
\* participantCount: a session that was purged as stale, or never was a
\* participant, is not sent events.
C38_PollersAreParticipants ==
  (response.op = "poll" /\ response.success) =>
     /\ response.roomId \in DOMAIN rooms
     /\ response.sessionId \in DOMAIN rooms[response.roomId].participants
     /\ response.participantCount >= 1

\* ---------------------------------------------------------------- C39
\* No participant of the room was seen after the room's last activity.
SeenWithinActivity(room) ==
  \A s \in DOMAIN room.participants : room.participants[s].lastSeen <= room.lastActivity

\* The room holds a participant seen within the last five minutes.
HoldsFresh(room) ==
  \E s \in DOMAIN room.participants : room.participants[s].lastSeen >= now - FiveMinutes

\* C39: in every reachable state of a room of the polling backend, each
\* participant's lastSeen is not later than the room's lastActivity, so
\* that a room holding a non-stale participant is not expired; and no
\* step makes the lastActivity of a room smaller.
C39_ActivityCoversPresence ==
  /\ [](\A r \in DOMAIN rooms :
          /\ SeenWithinActivity(rooms[r])
          /\ HoldsFresh(rooms[r]) => ~isExpired(rooms[r], now))
  /\ [][\A r \in DOMAIN rooms \cap DOMAIN rooms' :
          rooms'[r].lastActivity >= rooms[r].lastActivity]_vars

\* More than an hour after its creation a room holds a participant that
\* was just seen.
C39_Witness ==
  \E r \in DOMAIN rooms :
     /\ rooms[r].createdAt < now - OneHour
     /\ HoldsFresh(rooms[r])
     /\ rooms[r].lastActivity = now
     /\ response.op = "poll"

\* ---------------------------------------------------------------- C40
\* C40: updatePlayerData never stores isActive = true for a record the
\* caller submitted with isActive = false, whatever the number of active
\* players of the other sessions.
C40_InactiveStaysInactive ==
  \A r \in DOMAIN rooms : \A S \in 1..MaxSessions : \A p \in ArrayInputs :
     LET stored == ListOf(updatePlayerData(rooms[r], S, p, now).players, S)
     IN \A i \in 1..Len(stored) : ~p.items[i].isActive => ~stored[i].isActive

====
